---- MODULE Spec2Model ----
(***************************************************************************)
(* Template analysis, semantic field mapping, human correction and fill    *)
(* audit of the bank document automation service (src/main.py,             *)
(* src/mapping_engine.py, src/rag_service.py, src/app.py).                 *)
(*                                                                         *)
(* Conventions.  Texts (labels, field ids, canonical ids, record values)   *)
(* are strings; where the code inspects a text character by character the  *)
(* model works on Chars[text], its tuple of one-character strings, and     *)
(* Str turns a tuple back into the text.  Distances are integers in        *)
(* hundredths (0.40 is 40).  Python's None and a missing dict key are the  *)
(* strings None and Absent, which no text of the model equals.             *)
(***************************************************************************)
EXTENDS Integers, Sequences, FiniteSets, TLC

None == "<None>"
Absent == "<absent>"

\* Python truthiness of a text-or-None value.
Truthy(x) == x # None /\ x # Absent /\ x # ""

\* ------------------------------------------------------------------ text

UpperChars == <<"A","B","C","D","E","F","G","H","I","J","K","L","M",
                "N","O","P","Q","R","S","T","U","V","W","X","Y","Z">>
LowerChars == <<"a","b","c","d","e","f","g","h","i","j","k","l","m",
                "n","o","p","q","r","s","t","u","v","w","x","y","z">>
UpperSet == {UpperChars[i] : i \in DOMAIN UpperChars}
LowerSet == {LowerChars[i] : i \in DOMAIN LowerChars}
DigitChars == {"0","1","2","3","4","5","6","7","8","9"}
ToLower == [c \in UpperSet |-> LowerChars[CHOOSE i \in DOMAIN UpperChars : UpperChars[i] = c]]
ToUpper == [c \in LowerSet |-> UpperChars[CHOOSE i \in DOMAIN LowerChars : LowerChars[i] = c]]

IsAlpha(c) == c \in UpperSet \/ c \in LowerSet
IsDigit(c) == c \in DigitChars
IsAlnum(c) == IsAlpha(c) \/ IsDigit(c)

lower_char(c) == IF c \in UpperSet THEN ToLower[c] ELSE c
upper_char(c) == IF c \in LowerSet THEN ToUpper[c] ELSE c

SetMin(S) == CHOOSE x \in S : \A y \in S : x <= y
SetMax(S) == CHOOSE x \in S : \A y \in S : y <= x

\* str.lower()
str_lower(s) == [i \in 1..Len(s) |-> lower_char(s[i])]
\* str.replace(a, b) for one-character a and b
str_replace(s, a, b) == [i \in 1..Len(s) |-> IF s[i] = a THEN b ELSE s[i]]
\* str.strip()
str_strip(s) ==
  LET keep == {i \in 1..Len(s) : s[i] # " "}
  IN IF keep = {} THEN <<>> ELSE SubSeq(s, SetMin(keep), SetMax(keep))
\* str.split(".")[0]
split_dot_first(s) ==
  LET dots == {i \in 1..Len(s) : s[i] = "."}
  IN IF dots = {} THEN s ELSE SubSeq(s, 1, SetMin(dots) - 1)
\* str.split(".")[-1]
split_dot_last(s) ==
  LET dots == {i \in 1..Len(s) : s[i] = "."}
  IN IF dots = {} THEN s ELSE SubSeq(s, SetMax(dots) + 1, Len(s))
\* str.title(): a letter is upper-cased after a non-letter, lower-cased after a letter
str_title(s) ==
  [i \in 1..Len(s) |->
     IF i = 1 \/ ~IsAlpha(s[i-1]) THEN upper_char(s[i]) ELSE lower_char(s[i])]

\* The characters of every text the model uses, as pairs <<text, characters>>.
CharsTable ==
  {
    <<"dob", <<"d","o","b">>>>,
    <<"DOB", <<"D","O","B">>>>,
    <<" dob ", <<" ","d","o","b"," ">>>>,
    <<"date of birth", <<"d","a","t","e"," ","o","f"," ","b","i","r","t","h">>>>,
    <<"DATE OF BIRTH", <<"D","A","T","E"," ","O","F"," ","B","I","R","T","H">>>>,
    <<" date_of_birth ", <<" ","d","a","t","e","_","o","f","_","b","i","r","t","h"," ">>>>,
    <<"birth date", <<"b","i","r","t","h"," ","d","a","t","e">>>>,
    <<"BIRTH DATE", <<"B","I","R","T","H"," ","D","A","T","E">>>>,
    <<" birth_date ", <<" ","b","i","r","t","h","_","d","a","t","e"," ">>>>,
    <<"fname", <<"f","n","a","m","e">>>>,
    <<"FNAME", <<"F","N","A","M","E">>>>,
    <<" fname ", <<" ","f","n","a","m","e"," ">>>>,
    <<"first name", <<"f","i","r","s","t"," ","n","a","m","e">>>>,
    <<"FIRST NAME", <<"F","I","R","S","T"," ","N","A","M","E">>>>,
    <<" first_name ", <<" ","f","i","r","s","t","_","n","a","m","e"," ">>>>,
    <<"given name", <<"g","i","v","e","n"," ","n","a","m","e">>>>,
    <<"GIVEN NAME", <<"G","I","V","E","N"," ","N","A","M","E">>>>,
    <<" given_name ", <<" ","g","i","v","e","n","_","n","a","m","e"," ">>>>,
    <<"lname", <<"l","n","a","m","e">>>>,
    <<"LNAME", <<"L","N","A","M","E">>>>,
    <<" lname ", <<" ","l","n","a","m","e"," ">>>>,
    <<"last name", <<"l","a","s","t"," ","n","a","m","e">>>>,
    <<"LAST NAME", <<"L","A","S","T"," ","N","A","M","E">>>>,
    <<" last_name ", <<" ","l","a","s","t","_","n","a","m","e"," ">>>>,
    <<"surname", <<"s","u","r","n","a","m","e">>>>,
    <<"SURNAME", <<"S","U","R","N","A","M","E">>>>,
    <<" surname ", <<" ","s","u","r","n","a","m","e"," ">>>>,
    <<"family name", <<"f","a","m","i","l","y"," ","n","a","m","e">>>>,
    <<"FAMILY NAME", <<"F","A","M","I","L","Y"," ","N","A","M","E">>>>,
    <<" family_name ", <<" ","f","a","m","i","l","y","_","n","a","m","e"," ">>>>,
    <<"email", <<"e","m","a","i","l">>>>,
    <<"EMAIL", <<"E","M","A","I","L">>>>,
    <<" email ", <<" ","e","m","a","i","l"," ">>>>,
    <<"e-mail", <<"e","-","m","a","i","l">>>>,
    <<"E-MAIL", <<"E","-","M","A","I","L">>>>,
    <<" e-mail ", <<" ","e","-","m","a","i","l"," ">>>>,
    <<"phone", <<"p","h","o","n","e">>>>,
    <<"PHONE", <<"P","H","O","N","E">>>>,
    <<" phone ", <<" ","p","h","o","n","e"," ">>>>,
    <<"mobile", <<"m","o","b","i","l","e">>>>,
    <<"MOBILE", <<"M","O","B","I","L","E">>>>,
    <<" mobile ", <<" ","m","o","b","i","l","e"," ">>>>,
    <<"cell", <<"c","e","l","l">>>>,
    <<"CELL", <<"C","E","L","L">>>>,
    <<" cell ", <<" ","c","e","l","l"," ">>>>,
    <<"address", <<"a","d","d","r","e","s","s">>>>,
    <<"ADDRESS", <<"A","D","D","R","E","S","S">>>>,
    <<" address ", <<" ","a","d","d","r","e","s","s"," ">>>>,
    <<"residence", <<"r","e","s","i","d","e","n","c","e">>>>,
    <<"RESIDENCE", <<"R","E","S","I","D","E","N","C","E">>>>,
    <<" residence ", <<" ","r","e","s","i","d","e","n","c","e"," ">>>>,
    <<"nric", <<"n","r","i","c">>>>,
    <<"NRIC", <<"N","R","I","C">>>>,
    <<" nric ", <<" ","n","r","i","c"," ">>>>,
    <<"id number", <<"i","d"," ","n","u","m","b","e","r">>>>,
    <<"ID NUMBER", <<"I","D"," ","N","U","M","B","E","R">>>>,
    <<" id_number ", <<" ","i","d","_","n","u","m","b","e","r"," ">>>>,
    <<"passport", <<"p","a","s","s","p","o","r","t">>>>,
    <<"PASSPORT", <<"P","A","S","S","P","O","R","T">>>>,
    <<" passport ", <<" ","p","a","s","s","p","o","r","t"," ">>>>,
    <<"nationality", <<"n","a","t","i","o","n","a","l","i","t","y">>>>,
    <<"NATIONALITY", <<"N","A","T","I","O","N","A","L","I","T","Y">>>>,
    <<" nationality ", <<" ","n","a","t","i","o","n","a","l","i","t","y"," ">>>>,
    <<"citizenship", <<"c","i","t","i","z","e","n","s","h","i","p">>>>,
    <<"CITIZENSHIP", <<"C","I","T","I","Z","E","N","S","H","I","P">>>>,
    <<" citizenship ", <<" ","c","i","t","i","z","e","n","s","h","i","p"," ">>>>,
    <<"gender", <<"g","e","n","d","e","r">>>>,
    <<"GENDER", <<"G","E","N","D","E","R">>>>,
    <<" gender ", <<" ","g","e","n","d","e","r"," ">>>>,
    <<"sex", <<"s","e","x">>>>,
    <<"SEX", <<"S","E","X">>>>,
    <<" sex ", <<" ","s","e","x"," ">>>>,
    <<"marital status", <<"m","a","r","i","t","a","l"," ","s","t","a","t","u","s">>>>,
    <<"MARITAL STATUS", <<"M","A","R","I","T","A","L"," ","S","T","A","T","U","S">>>>,
    <<" marital_status ", <<" ","m","a","r","i","t","a","l","_","s","t","a","t","u","s"," ">>>>,
    <<"income", <<"i","n","c","o","m","e">>>>,
    <<"INCOME", <<"I","N","C","O","M","E">>>>,
    <<" income ", <<" ","i","n","c","o","m","e"," ">>>>,
    <<"occupation", <<"o","c","c","u","p","a","t","i","o","n">>>>,
    <<"OCCUPATION", <<"O","C","C","U","P","A","T","I","O","N">>>>,
    <<" occupation ", <<" ","o","c","c","u","p","a","t","i","o","n"," ">>>>,
    <<"job title", <<"j","o","b"," ","t","i","t","l","e">>>>,
    <<"JOB TITLE", <<"J","O","B"," ","T","I","T","L","E">>>>,
    <<" job_title ", <<" ","j","o","b","_","t","i","t","l","e"," ">>>>,
    <<"employer", <<"e","m","p","l","o","y","e","r">>>>,
    <<"EMPLOYER", <<"E","M","P","L","O","Y","E","R">>>>,
    <<" employer ", <<" ","e","m","p","l","o","y","e","r"," ">>>>,
    <<"company", <<"c","o","m","p","a","n","y">>>>,
    <<"COMPANY", <<"C","O","M","P","A","N","Y">>>>,
    <<" company ", <<" ","c","o","m","p","a","n","y"," ">>>>,
    <<"acc no", <<"a","c","c"," ","n","o">>>>,
    <<"ACC NO", <<"A","C","C"," ","N","O">>>>,
    <<" acc_no ", <<" ","a","c","c","_","n","o"," ">>>>,
    <<"account no", <<"a","c","c","o","u","n","t"," ","n","o">>>>,
    <<"ACCOUNT NO", <<"A","C","C","O","U","N","T"," ","N","O">>>>,
    <<" account_no ", <<" ","a","c","c","o","u","n","t","_","n","o"," ">>>>,
    <<"account number", <<"a","c","c","o","u","n","t"," ","n","u","m","b","e","r">>>>,
    <<"ACCOUNT NUMBER", <<"A","C","C","O","U","N","T"," ","N","U","M","B","E","R">>>>,
    <<" account_number ", <<" ","a","c","c","o","u","n","t","_","n","u","m","b","e","r"," ">>>>,
    <<"form1.pdf", <<"f","o","r","m","1",".","p","d","f">>>>,
    <<"form 1.pdf", <<"f","o","r","m"," ","1",".","p","d","f">>>>,
    <<"John Doe", <<"J","o","h","n"," ","D","o","e">>>>,
    <<"Yes", <<"Y","e","s">>>>,
    <<"no", <<"n","o">>>>,
    <<"Ref:", <<"R","e","f",":">>>>,
    <<"static_Ref_1_72", <<"s","t","a","t","i","c","_","R","e","f","_","1","_","7","2">>>>,
    <<"static_Sex_0_72", <<"s","t","a","t","i","c","_","S","e","x","_","0","_","7","2">>>>,
    <<"static_Sex_1_72", <<"s","t","a","t","i","c","_","S","e","x","_","1","_","7","2">>>>,
    <<"Date of Birth", <<"D","a","t","e"," ","o","f"," ","B","i","r","t","h">>>>,
    <<"Ref No", <<"R","e","f"," ","N","o">>>>,
    <<"Gender", <<"G","e","n","d","e","r">>>>,
    <<"Sex", <<"S","e","x">>>>,
    <<"ref", <<"r","e","f">>>>,
    <<"dob_1", <<"d","o","b","_","1">>>>,
    <<"f1", <<"f","1">>>>,
    <<"F1", <<"F","1">>>>,
    <<"Ref", <<"R","e","f">>>>,
    <<"Dob 1", <<"D","o","b"," ","1">>>>,
    <<"static_Ref_0_72", <<"s","t","a","t","i","c","_","R","e","f","_","0","_","7","2">>>>,
    <<"zz", <<"z","z">>>>,
    <<"form.pdf", <<"f","o","r","m",".","p","d","f">>>>,
    <<"", <<>>>>,
    <<"Ann Lee", <<"A","n","n"," ","L","e","e">>>>,
    <<"Ann_Lee", <<"A","n","n","_","L","e","e">>>>,
    <<"Bob", <<"B","o","b">>>>,
    <<"Unknown", <<"U","n","k","n","o","w","n">>>>,
    <<"F", <<"F">>>>,
    <<"yes", <<"y","e","s">>>>,
    <<" ", <<" ">>>>,
    <<"op7", <<"o","p","7">>>>,
    <<"system", <<"s","y","s","t","e","m">>>> }

\* The second component of the one pair in a set of pairs, None for no pair.
pair_value(hits) == IF hits = {} THEN None ELSE (CHOOSE p \in hits : TRUE)[2]
\* The first component of the one pair in a set of pairs.
pair_key(hits) == (CHOOSE p \in hits : TRUE)[1]

\* The characters of a text.
Chars(s) == pair_value({p \in CharsTable : p[1] = s})
\* The text with the given characters.
Str(cs) == pair_key({p \in CharsTable : p[2] = cs})

\* ------------------------------------------------- similarity search

\* synonym_map (rag_service.py:84-118) as pairs <<key characters, canonical id>>.
synonym_map ==
  {
    <<<<"d","o","b">>, "date_of_birth">>,
    <<<<"d","a","t","e"," ","o","f"," ","b","i","r","t","h">>, "date_of_birth">>,
    <<<<"b","i","r","t","h"," ","d","a","t","e">>, "date_of_birth">>,
    <<<<"f","n","a","m","e">>, "first_name">>,
    <<<<"f","i","r","s","t"," ","n","a","m","e">>, "first_name">>,
    <<<<"g","i","v","e","n"," ","n","a","m","e">>, "first_name">>,
    <<<<"l","n","a","m","e">>, "last_name">>,
    <<<<"l","a","s","t"," ","n","a","m","e">>, "last_name">>,
    <<<<"s","u","r","n","a","m","e">>, "last_name">>,
    <<<<"f","a","m","i","l","y"," ","n","a","m","e">>, "last_name">>,
    <<<<"e","m","a","i","l">>, "email_address">>,
    <<<<"e","-","m","a","i","l">>, "email_address">>,
    <<<<"p","h","o","n","e">>, "mobile_number">>,
    <<<<"m","o","b","i","l","e">>, "mobile_number">>,
    <<<<"c","e","l","l">>, "mobile_number">>,
    <<<<"a","d","d","r","e","s","s">>, "residential_address">>,
    <<<<"r","e","s","i","d","e","n","c","e">>, "residential_address">>,
    <<<<"n","r","i","c">>, "national_id">>,
    <<<<"i","d"," ","n","u","m","b","e","r">>, "national_id">>,
    <<<<"p","a","s","s","p","o","r","t">>, "passport_number">>,
    <<<<"n","a","t","i","o","n","a","l","i","t","y">>, "nationality">>,
    <<<<"c","i","t","i","z","e","n","s","h","i","p">>, "nationality">>,
    <<<<"g","e","n","d","e","r">>, "gender">>,
    <<<<"s","e","x">>, "gender">>,
    <<<<"m","a","r","i","t","a","l"," ","s","t","a","t","u","s">>, "marital_status">>,
    <<<<"i","n","c","o","m","e">>, "annual_income">>,
    <<<<"o","c","c","u","p","a","t","i","o","n">>, "occupation">>,
    <<<<"j","o","b"," ","t","i","t","l","e">>, "occupation">>,
    <<<<"e","m","p","l","o","y","e","r">>, "employer_name">>,
    <<<<"c","o","m","p","a","n","y">>, "employer_name">>,
    <<<<"a","c","c"," ","n","o">>, "account_number">>,
    <<<<"a","c","c","o","u","n","t"," ","n","o">>, "account_number">>,
    <<<<"a","c","c","o","u","n","t"," ","n","u","m","b","e","r">>, "account_number">> }

\* synonym_map.get(key): the canonical id, or None.
synonym_get(key) == pair_value({p \in synonym_map : p[1] = key})

\* The text after "Field Label:" up to the first full stop, stripped and
\* lower-cased (rag_service.py:133).  The query is
\* "Field Label: {label}. Context: ..." (mapping_engine.py:97), so the part
\* is cut from " {label}"; labels here never hold the marker text itself.
label_part(label) == str_lower(str_strip(split_dot_first(<<" ">> \o Chars(label))))
\* label_clean (rag_service.py:137)
label_clean(label) == str_strip(str_replace(label_part(label), "_", " "))

\* Distances in hundredths.
SynonymScore == 5
HighThreshold == 40
MediumThreshold == 75
AmbiguityGap == 5

Candidate(fid, score) ==
  [field_id |-> fid, score |-> score, metadata |-> [field_id |-> fid]]

\* Ranked top-K lists the vector store may hold for a query.
CandLists ==
  { <<>>,
    <<Candidate("gender", 39)>>,
    <<Candidate("gender", 40), Candidate("first_name", 43)>>,
    <<Candidate("gender", 74)>>,
    <<Candidate("gender", 75)>> }

\* The labels whose queries the vector store of the model knows.
QueryLabels == {"Ref No", "Ref"}

\* schema_collection.query for one query (rag_service.py:157-173): the
\* collection's ranked list for it, empty when it holds nothing near.  A
\* result without ids leaves the entry None; the caller treats None and
\* the empty list alike.
vector_answer(schema, label) == IF label \in DOMAIN schema THEN schema[label] ELSE <<>>

\* The guard that skips the whole search (rag_service.py:79).
SearchSkipped(is_ready, query_texts) == ~is_ready \/ query_texts = <<>>

\* The indices of the queries that miss the synonym table
\* (rag_service.py:151-153); hits[i] is the canonical id found for query i,
\* or None.
vector_indices(hits) == {i \in 1..Len(hits) : hits[i] = None}

\* The body of search_canonical_field_batch after the guard
\* (rag_service.py:82-173).  qok says whether the vector query, if one is
\* made, answers (TRUE) or raises (FALSE).
search_batch(query_texts, hits, schema, qok) ==
  IF vector_indices(hits) # {} /\ ~qok
  THEN [kind |-> "raise", val |-> <<>>]
  ELSE [kind |-> "ok",
        val |-> [i \in 1..Len(query_texts) |->
                   IF hits[i] # None
                   THEN <<Candidate(hits[i], SynonymScore)>>
                   ELSE vector_answer(schema, query_texts[i])]]

\* RealRAGService.search_canonical_field_batch.  A query is modelled by the
\* label it carries.
search_canonical_field_batch(is_ready, query_texts, schema, qok) ==
  IF SearchSkipped(is_ready, query_texts)
  THEN [kind |-> "ok", val |-> [i \in 1..Len(query_texts) |-> <<>>]]
  ELSE search_batch(query_texts,
                    [i \in 1..Len(query_texts) |-> synonym_get(label_clean(query_texts[i]))],
                    schema, qok)

\* ------------------------------------------------------------ records

\* The proposal of a record the mapping engine has not seen yet.  The
\* proposal's suggested_new_field_name (the label in snake case) is left
\* out: nothing reads it.
NoProposal ==
  [canonical_field_id |-> Absent, confidence |-> Absent, explanation |-> Absent,
   candidates |-> <<>>, scores |-> <<>>]

\* The descriptor analyze_template builds for one widget (main.py:302-317)
\* or scan_for_static_fields for one label (main.py:410-417), before
\* mapping: the keys the mapping engine adds later are still missing.
\* rect is the field's rectangle [x1, y1, x2, y2] in tenths of a point.
\* rect = None (main.py:262, meta.get('rect') of a widget on no page)
NoRect == <<>>

RawField(id, label, type, source, rect, export_options) ==
  [id |-> id, label |-> label, name |-> id, type |-> type, source |-> source,
   rect |-> rect, export_options |-> export_options,
   original_name |-> Absent, mapping_status |-> Absent,
   confidence |-> Absent, mapping_source |-> Absent,
   mapping_proposal |-> NoProposal, reviewed_by |-> Absent]

\* ---------------------------------------------------- mapping engine

PreservedStatuses == {"approved", "manual_override"}

IsSafeChar(c) == IsAlpha(c) \/ IsDigit(c) \/ c \in {"_", "-", "."}
\* DynamicMappingEngine.get_mapping_file_path: the sanitized template id
\* that names the file "<safe_name>.mapping.json".
get_mapping_file_path(template_id) == Str(SelectSeq(Chars(template_id), IsSafeChar))

\* A mapping file that does not exist.
NoFile == [exists |-> FALSE, mappings |-> <<>>, mtime |-> 0]

\* load_saved_params(...)['mappings'], or nothing when the file is missing.
load_saved_mappings(file) == IF file.exists THEN file.mappings ELSE <<>>

\* save_mappings: the whole file is overwritten, its modification time is now.
save_mappings(field_mappings, now) ==
  [exists |-> TRUE, mappings |-> field_mappings, mtime |-> now]

\* saved_map.get(key) as an index into the saved list (0: no entry).  The
\* dict is filled record by record, first under the record's id, then under
\* its name; a later assignment to the same key replaces an earlier one.
saved_map_index(saved, key) ==
  LET hits == {j \in 1..(2 * Len(saved)) :
                 IF j % 2 = 1 THEN saved[(j + 1) \div 2].id = key
                 ELSE saved[j \div 2].name = key}
  IN IF hits = {} THEN 0 ELSE (SetMax(hits) + 1) \div 2

\* Whether a field of the analysed list takes the historical branch
\* (mapping_engine.py:78-79).
IsPreserved(saved, field) ==
  LET k == saved_map_index(saved, field.id)
  IN k # 0 /\ saved[k].mapping_status \in PreservedStatuses

\* The historical branch (mapping_engine.py:81-88): original_name is not set.
preserved_field(field, existing) ==
  [field EXCEPT
     !.mapping_proposal = existing.mapping_proposal,
     !.name = existing.name,
     !.mapping_status = existing.mapping_status,
     !.mapping_source = IF existing.mapping_source = Absent THEN "historical"
                        ELSE existing.mapping_source,
     !.reviewed_by = IF existing.reviewed_by = Absent THEN None
                     ELSE existing.reviewed_by,
     !.confidence = IF existing.confidence = Absent THEN "High"
                    ELSE existing.confidence]

AbsDiff(a, b) == IF a >= b THEN a - b ELSE b - a

\* A strong tier that takes its boundary in: distance <= 0.40.
IsStrongInclusive(distance) == distance <= HighThreshold

\* distance < 0.40 (mapping_engine.py:121)
IsStrong(distance) == distance < HighThreshold
\* distance < 0.75 (mapping_engine.py:129)
IsWeak(distance) == ~IsStrong(distance) /\ distance < MediumThreshold

\* A name that is the field id whatever was matched.
resolved_name_always_id(best_match, field_id) == field_id

\* A name without the fallback to the field id.
best_match_only(best_match, field_id) == best_match

\* 'name': best_match if best_match else field_id (mapping_engine.py:148)
resolved_name(best_match, field_id) == IF Truthy(best_match) THEN best_match ELSE field_id

\* The confidence tiers (mapping_engine.py:110-160) for one field and the
\* candidate list the search returned for it.
mapped_field(field, candidates) ==
  LET has == candidates # <<>>
      distance == candidates[1].score
      strong == has /\ IsStrong(distance)
      weak == has /\ IsWeak(distance)
      best_match == IF strong \/ weak THEN candidates[1].metadata.field_id ELSE None
      confidence == IF strong THEN "High" ELSE IF weak THEN "Medium" ELSE "Low"
      ambiguous == /\ weak
                   /\ Len(candidates) > 1
                   /\ AbsDiff(candidates[1].score, candidates[2].score) < AmbiguityGap
      explanation == IF strong THEN "strong"
                     ELSE IF weak THEN (IF ambiguous THEN "likely_ambiguous" ELSE "likely")
                     ELSE IF has THEN "weak" ELSE "no_match"
  IN [field EXCEPT
        !.original_name = field.id,
        !.name = resolved_name(best_match, field.id),
        !.mapping_status = IF strong THEN "auto"
                           ELSE IF weak THEN "pending_review" ELSE "suggest_new",
        !.confidence = confidence,
        !.mapping_source = IF strong THEN "auto_embedding_strong"
                           ELSE IF weak THEN "auto_embedding_weak" ELSE "Unmapped",
        !.mapping_proposal =
           [canonical_field_id |-> best_match,
            confidence |-> confidence,
            explanation |-> explanation,
            candidates |-> [j \in 1..Len(candidates) |-> candidates[j].metadata.field_id],
            scores |-> [j \in 1..Len(candidates) |-> candidates[j].score]]]

\* The indices of the fields that need analysis, in order (to_process_indices).
ToProcess(saved, template_fields) ==
  LET pick[i \in 0..Len(template_fields)] ==
        IF i = 0 THEN <<>>
        ELSE IF IsPreserved(saved, template_fields[i]) THEN pick[i-1]
             ELSE Append(pick[i-1], i)
  IN pick[Len(template_fields)]

\* The batch of queries (one per field to process; a query is its label).
Queries(saved, template_fields) ==
  LET idx == ToProcess(saved, template_fields)
  IN [k \in 1..Len(idx) |-> template_fields[idx[k]].label]

\* Position of x in the sequence of distinct numbers s.
PosIn(s, x) == CHOOSE j \in 1..Len(s) : s[j] = x

\* A result of search_canonical_field_batch, marked as the result of a call.
search_called(sr) == [kind |-> sr.kind, val |-> sr.val, searched |-> TRUE]

\* The batch search of map_template_fields (mapping_engine.py:101-105):
\* no call is made for an empty batch.
batch_results(queries, is_ready, schema, qok) ==
  IF queries # <<>>
  THEN search_called(search_canonical_field_batch(is_ready, queries, schema, qok))
  ELSE [kind |-> "ok", val |-> <<>>, searched |-> FALSE]

\* The list map_template_fields builds from the saved records and the
\* search results (mapping_engine.py:74-88, 107-160).
mapped_list(template_fields, saved, results) ==
  [i \in 1..Len(template_fields) |->
     IF IsPreserved(saved, template_fields[i])
     THEN preserved_field(template_fields[i],
                          saved[saved_map_index(saved, template_fields[i].id)])
     ELSE mapped_field(template_fields[i],
                       results[PosIn(ToProcess(saved, template_fields), i)])]

\* save_mappings(template_id, final_mappings); return final_mappings
\* (mapping_engine.py:165-166)
saved_outcome(final_mappings, now, searched) ==
  [kind |-> "ok", val |-> final_mappings, file |-> save_mappings(final_mappings, now),
   qfail |-> FALSE, searched |-> searched]

\* What map_template_fields returns and leaves on disk, given the outcome
\* sr of its batch search: a raised search or a failed save (wok false)
\* raises out of it, and the file is written only at the end.
map_outcome(template_fields, file, sr, wok, now) ==
  IF sr.kind = "raise"
  THEN [kind |-> "raise", val |-> <<>>, file |-> file, qfail |-> TRUE,
        searched |-> sr.searched]
  ELSE IF ~wok
  THEN [kind |-> "raise", val |-> <<>>, file |-> file, qfail |-> FALSE,
        searched |-> sr.searched]
  ELSE saved_outcome(mapped_list(template_fields, load_saved_mappings(file), sr.val), now,
                     sr.searched)

\* DynamicMappingEngine.map_template_fields.  schema is the vector store's
\* content, qok whether its query answers, wok whether the mapping file can
\* be written.
map_template_fields(template_fields, file, is_ready, schema, qok, wok, now) ==
  map_outcome(template_fields, file,
              batch_results(Queries(load_saved_mappings(file), template_fields),
                            is_ready, schema, qok),
              wok, now)

\* The id update_mapping matches a record by (mapping_engine.py:183).
record_fid(m) == IF m.original_name # Absent THEN m.original_name ELSE m.id

\* Index of the first record update_mapping matches (0: none).
found_index(mapped_fields, field_id) ==
  LET hits == {i \in 1..Len(mapped_fields) : record_fid(mapped_fields[i]) = field_id}
  IN IF hits = {} THEN 0 ELSE SetMin(hits)

\* DynamicMappingEngine.log_correction: one line appended to corrections.log.
log_correction(log, template, label, original_ai, correct_human) ==
  Append(log, [template |-> template, field_label |-> label,
               ai_guess |-> original_ai, human_correction |-> correct_human])

\* A logging test that does not compare the guess with the new id.
ShouldLogAnyGuess(found, canonical_id) ==
  Truthy(found.mapping_proposal.canonical_field_id)

\* Whether update_mapping logs a correction for the record it found
\* (mapping_engine.py:189-192).
ShouldLog(found, canonical_id) ==
  LET original_guess == found.mapping_proposal.canonical_field_id
  IN Truthy(original_guess) /\ original_guess # canonical_id

\* A rewrite that leaves the record's name alone.
corrected_record_keeping_name(found, canonical_id, status, user) ==
  [found EXCEPT
     !.mapping_proposal.canonical_field_id = canonical_id,
     !.mapping_status = status,
     !.reviewed_by = user,
     !.mapping_source = "manual_correction",
     !.confidence = "High"]

\* A rewrite that leaves the record's confidence alone.
corrected_record_keeping_confidence(found, canonical_id, status, user) ==
  [found EXCEPT
     !.name = canonical_id,
     !.mapping_proposal.canonical_field_id = canonical_id,
     !.mapping_status = status,
     !.reviewed_by = user,
     !.mapping_source = "manual_correction"]

\* The record as update_mapping rewrites it (mapping_engine.py:195-200).
corrected_record(found, canonical_id, status, user) ==
  [found EXCEPT
     !.name = canonical_id,
     !.mapping_proposal.canonical_field_id = canonical_id,
     !.mapping_status = status,
     !.reviewed_by = user,
     !.mapping_source = "manual_correction",
     !.confidence = "High"]

\* DynamicMappingEngine.update_mapping: the file and the correction log
\* afterwards, and whether a record was found.
update_mapping(file, log, template_id, field_id, canonical_id, status, user, now) ==
  LET mapped_fields == load_saved_mappings(file)
      k == found_index(mapped_fields, field_id)
      found == mapped_fields[k]
  IN [found |-> k # 0,
      log |-> IF k # 0 /\ ShouldLog(found, canonical_id)
              THEN log_correction(log, template_id, found.label,
                                  found.mapping_proposal.canonical_field_id, canonical_id)
              ELSE log,
      file |-> save_mappings(
                 IF k = 0 THEN mapped_fields
                 ELSE [mapped_fields EXCEPT
                         ![k] = corrected_record(found, canonical_id, status, user)],
                 now)]

\* ------------------------------------------------- template documents

\* Lengths are integers in tenths of a point.
\* rect = [target_x, target_y, target_x + 150, target_y + 15] (main.py:408)
StaticWidth == 150
StaticHeight == 15
\* target_x = item['x'] + item['w'] + 5 (main.py:398)
WriteGap == 5
\* target_x > page_width - 20 (main.py:402)
RightMargin == 20
\* fontSize or 10 (main.py:377)
DefaultFontSize == 10
\* The height of the widgets' rectangles in the documents below, in points.
WidgetHeight == 20

\* A text run the page's text extraction hands to the visitor: its text,
\* the index of its page, and tm[4], tm[5] in tenths of a point.
TextRun(text, page_num, x, y) ==
  [text |-> text, page_num |-> page_num, x |-> x, y |-> y, fontSize |-> None]

\* A widget of the interactive form: its qualified name, the label printed
\* next to it, its /FT, its rectangle, whether its /AP /N has keys (a
\* missing one defaults to the empty dictionary), those keys, whether it
\* has an /Opt, and the /Opt entries.
Widget(name, visual, ft) ==
  [name |-> name, visual |-> visual, ft |-> ft,
   rect |-> <<1000, 7000, 2500, 7000 + 10 * WidgetHeight>>,
   ap_has_keys |-> TRUE, ap |-> <<>>, has_opt |-> FALSE, opt |-> <<>>]

\* The form root of a writer that appended the template (main.py:467):
\* none, or one without /NeedAppearances.
NoAcroForm == [exists |-> FALSE, need_appearances |-> FALSE]
WithAcroForm == [exists |-> TRUE, need_appearances |-> FALSE]

\* An interactive form: a widget named after a canonical field with no
\* visible label, and one labelled "Ref No"; the page also prints "Ref:",
\* which the static scan picks up.
DocAcro ==
  [acroform |-> TRUE, writer_root |-> WithAcroForm, page_width |-> 6120,
   widgets |-> <<Widget("gender", "", "/Tx"), Widget("ref", "Ref No", "/Tx")>>,
   runs |-> <<TextRun("Ref:", 0, 720, 7000)>>]

\* The same form, whose /AcroForm entry the writer's append does not carry
\* over.
DocAcroBare == [DocAcro EXCEPT !.writer_root = NoAcroForm]

\* An interactive form with one text field labelled "Date of Birth" and no
\* text the static scan takes for a label.
DocDob ==
  [acroform |-> TRUE, writer_root |-> WithAcroForm, page_width |-> 6120,
   widgets |-> <<Widget("dob_1", "Date of Birth", "/Tx")>>,
   runs |-> <<>>]

\* A checkbox widget with no visible label.
CheckWidget(name, ap_has_keys, ap, has_opt, opt) ==
  [name |-> name, visual |-> "", ft |-> "/Btn",
   rect |-> <<1000, 7000, 2500, 7000 + 10 * WidgetHeight>>,
   ap_has_keys |-> ap_has_keys, ap |-> ap, has_opt |-> has_opt, opt |-> opt]

\* One-checkbox forms: appearance states /Off, /Yes, /On; no appearance
\* dictionary; only /Off beside an /Opt; an /AP /N without keys with and
\* without an /Opt.
CheckDocs ==
  {[acroform |-> TRUE, writer_root |-> WithAcroForm, page_width |-> 6120, widgets |-> <<w>>, runs |-> <<>>] :
     w \in {CheckWidget("gender", TRUE, <<"/Off", "/Yes", "/On">>, FALSE, <<>>),
            CheckWidget("gender", TRUE, <<>>, FALSE, <<>>),
            CheckWidget("gender", TRUE, <<"/Off">>, TRUE, <<"/On">>),
            CheckWidget("gender", FALSE, <<>>, TRUE, <<"/On">>),
            CheckWidget("gender", FALSE, <<>>, FALSE, <<>>)}}

\* Flat documents (no interactive form) printing "Ref:" and, one row lower,
\* a second text: the same or another label, on the same or the next page,
\* in the same column, a little to the right of it, or at the right margin.
FlatDocs ==
  {[acroform |-> FALSE, writer_root |-> NoAcroForm, page_width |-> 6120, widgets |-> <<>>,
    runs |-> <<TextRun("Ref:", 0, 720, 7000), TextRun(text, page_num, x, 6500)>>] :
     text \in {"Ref:", "Ref", "Sex", "F"}, page_num \in {0, 1}, x \in {720, 726, 5800}}

\* Every spelling of a synonym key the normalization folds onto the key:
\* the key, the key in capitals, the key padded with its spaces as underscores.
SynonymLabels ==
  {
    "dob", "DOB", " dob ", "date of birth",
    "DATE OF BIRTH", " date_of_birth ", "birth date", "BIRTH DATE",
    " birth_date ", "fname", "FNAME", " fname ",
    "first name", "FIRST NAME", " first_name ", "given name",
    "GIVEN NAME", " given_name ", "lname", "LNAME",
    " lname ", "last name", "LAST NAME", " last_name ",
    "surname", "SURNAME", " surname ", "family name",
    "FAMILY NAME", " family_name ", "email", "EMAIL",
    " email ", "e-mail", "E-MAIL", " e-mail ",
    "phone", "PHONE", " phone ", "mobile",
    "MOBILE", " mobile ", "cell", "CELL",
    " cell ", "address", "ADDRESS", " address ",
    "residence", "RESIDENCE", " residence ", "nric",
    "NRIC", " nric ", "id number", "ID NUMBER",
    " id_number ", "passport", "PASSPORT", " passport ",
    "nationality", "NATIONALITY", " nationality ", "citizenship",
    "CITIZENSHIP", " citizenship ", "gender", "GENDER",
    " gender ", "sex", "SEX", " sex ",
    "marital status", "MARITAL STATUS", " marital_status ", "income",
    "INCOME", " income ", "occupation", "OCCUPATION",
    " occupation ", "job title", "JOB TITLE", " job_title ",
    "employer", "EMPLOYER", " employer ", "company",
    "COMPANY", " company ", "acc no", "ACC NO",
    " acc_no ", "account no", "ACCOUNT NO", " account_no ",
    "account number", "ACCOUNT NUMBER", " account_number " }

\* One-widget forms, one per spelling.
SynonymDocs ==
  {[acroform |-> TRUE, writer_root |-> WithAcroForm, page_width |-> 6120,
    widgets |-> <<Widget("f1", l, "/Tx")>>, runs |-> <<>>] :
     l \in SynonymLabels}

\* heuristic_label (main.py:295)
heuristic_label(field_name) ==
  Str(str_title(str_replace(split_dot_last(Chars(field_name)), "_", " ")))

\* export_options (main.py:264-276): for a button, the appearance states
\* other than /Off, or the /Opt entries when /AP /N has no keys.
export_options(w) ==
  IF w.ft # "/Btn" THEN <<>>
  ELSE IF w.ap_has_keys THEN SelectSeq(w.ap, LAMBDA k : k # "/Off")
  ELSE IF w.has_opt THEN w.opt
  ELSE <<>>

\* The descriptor of one widget (main.py:258-317).
raw_acro_field(w) ==
  RawField(w.name,
           IF w.visual # "" THEN w.visual ELSE heuristic_label(w.name),
           IF w.ft = "/Btn" THEN "checkbox" ELSE "text",
           "acroform", w.rect, export_options(w))

raw_fields(doc) == [i \in 1..Len(doc.widgets) |-> raw_acro_field(doc.widgets[i])]

\* str(n) for a natural number n
str_int(n) ==
  LET digits == <<"0","1","2","3","4","5","6","7","8","9">>
      f[k \in 0..n] == IF k < 10 THEN <<digits[k + 1]>>
                       ELSE f[k \div 10] \o <<digits[(k % 10) + 1]>>
  IN f[n]

\* str.replace(a, '')
str_remove(s, a) == SelectSeq(s, LAMBDA c : c # a)
\* k in s
str_contains(s, k) == \E i \in 0..(Len(s) - Len(k)) : SubSeq(s, i + 1, i + Len(k)) = k
\* str.isupper(): some cased character and no lower-case one
str_isupper(s) ==
  /\ \E i \in 1..Len(s) : s[i] \in UpperSet
  /\ \A i \in 1..Len(s) : s[i] \notin LowerSet

\* k.lower() for the keywords of the static scanner (main.py:358-363)
keywords ==
  { <<"n","a","m","e">>, <<"d","a","t","e">>, <<"s","i","g","n","a","t","u","r","e">>, <<"a","c","c","o","u","n","t">>, <<"a","d","d","r","e","s","s">>, <<"p","h","o","n","e">>, <<"m","o","b","i","l","e">>,
    <<"e","m","a","i","l">>, <<"s","s","n">>, <<"t","i","t","l","e">>, <<"c","i","t","y">>, <<"s","t","a","t","e">>, <<"z","i","p">>, <<"c","o","u","n","t","r","y">>,
    <<"n","a","t","i","o","n","a","l","i","t","y">>, <<"g","e","n","d","e","r">>, <<"s","e","x">>, <<"m","a","r","i","t","a","l">>, <<"i","n","c","o","m","e">>, <<"o","c","c","u","p","a","t","i","o","n">>,
    <<"e","m","p","l","o","y","e","r">>, <<"r","e","f","e","r","e","n","c","e">>, <<"b","e","n","e","f","i","c","i","a","r","y">>, <<"r","e","l","a","t","i","o","n","s","h","i","p">>, <<"t","a","x">>, <<"i","d">>,
    <<"n","u","m","b","e","r">>, <<"n","o",".">>, <<"c","o","d","e">>, <<"a","m","o","u","n","t">>, <<"v","a","l","u","e">> }

\* item['text'] (main.py:375)
raw_text(run) == str_strip(Chars(run.text))
\* clean_text (main.py:384)
clean_text(raw) == str_strip(str_remove(raw, ":"))
\* has_colon or is_keyword or is_upper (main.py:387-395)
IsLabelText(raw, clean) ==
  \/ (raw # <<>> /\ raw[Len(raw)] = ":")
  \/ \E k \in keywords : str_contains(str_lower(clean), k)
  \/ (str_isupper(clean) /\ Len(clean) > 3)
\* target_x (main.py:377, 398), in tenths of a point
target_x(run) ==
  run.x + Len(Chars(run.text))
            * (IF run.fontSize = None THEN DefaultFontSize ELSE run.fontSize) * 5
        + 10 * WriteGap
\* The visitor keeps the run (main.py:371) and the scanner takes it for a
\* label with room to its right (main.py:395-402).
IsStaticField(run, page_width) ==
  /\ Len(raw_text(run)) > 1
  /\ IsLabelText(raw_text(run), clean_text(raw_text(run)))
  /\ ~(target_x(run) > page_width - 10 * RightMargin)

IsIdChar(c) == IsAlnum(c) \/ c = "_"
\* field_id (main.py:405-406): int(x) truncates the position to points.
static_field_id(clean, page_num, x) ==
  Str(SelectSeq(<<"s","t","a","t","i","c","_">> \o clean \o <<"_">> \o str_int(page_num) \o <<"_">>
                  \o str_int(x \div 10),
                IsIdChar))

\* rect (main.py:408)
static_rect(tx, ty) == <<tx, ty, tx + 10 * StaticWidth, ty + 10 * StaticHeight>>

\* The descriptor of one label (main.py:410-417).
static_field(run) ==
  RawField(static_field_id(clean_text(raw_text(run)), run.page_num, run.x),
           Str(clean_text(raw_text(run))), "text", "static_scan",
           static_rect(target_x(run), run.y), Absent)

\* scan_for_static_fields (main.py:345-420): the label candidates among the
\* document's text runs, in reading order.
scan_for_static_fields(doc) ==
  LET pick[i \in 0..Len(doc.runs)] ==
        IF i = 0 THEN <<>>
        ELSE IF IsStaticField(doc.runs[i], doc.page_width)
             THEN Append(pick[i-1], static_field(doc.runs[i]))
             ELSE pick[i-1]
  IN pick[Len(doc.runs)]

\* fields_found or has_acrorequest (main.py:252)
IsInteractive(doc) == doc.widgets # <<>> \/ doc.acroform

\* The fields discovery finds in a document: the widgets of an interactive
\* form, otherwise the static scan's.
discovered_fields(doc) ==
  IF IsInteractive(doc) THEN raw_fields(doc) ELSE scan_for_static_fields(doc)

\* A cache check that takes a file holding an unmapped record for stale.
cache_valid_if_mapped(tmpl, file) ==
  /\ file.exists
  /\ file.mtime >= tmpl.mtime
  /\ Len(file.mappings) > 0
  /\ \A i \in DOMAIN file.mappings : file.mappings[i].mapping_status # "suggest_new"

\* The cache check with a file as old as the template taken for stale.
cache_newer_only(tmpl, file) ==
  /\ file.exists
  /\ file.mtime > tmpl.mtime
  /\ Len(file.mappings) > 0

\* The smart cache check (main.py:233-239).
cache_valid(tmpl, file) ==
  /\ file.exists
  /\ file.mtime >= tmpl.mtime
  /\ Len(file.mappings) > 0

\* What analyze_template returns after the cache check missed, given the
\* outcome r1 of mapping the interactive fields and r2 of mapping the static
\* scan's fields (main.py:243-343): a raise on the interactive path is
\* caught and falls through to the static scan, whose mapping is not guarded.
analyze_outcome(doc, file, r1, r2) ==
  IF IsInteractive(doc) /\ r1.kind = "ok"
  THEN [kind |-> "ok", val |-> r1.val, file |-> r1.file,
        strategy |-> "acroform", qfail |-> FALSE, searched |-> r1.searched]
  ELSE IF scan_for_static_fields(doc) # <<>>
  THEN [kind |-> r2.kind, val |-> r2.val, file |-> r2.file,
        strategy |-> "static",
        qfail |-> r2.qfail \/ (IsInteractive(doc) /\ r1.qfail),
        searched |-> r2.searched \/ (IsInteractive(doc) /\ r1.searched)]
  ELSE [kind |-> "ok", val |-> <<>>, file |-> file,
        strategy |-> "none", qfail |-> IsInteractive(doc) /\ r1.qfail,
        searched |-> IsInteractive(doc) /\ r1.searched]

\* analyze_template after the cache check missed.  q1 and q2 say whether
\* the vector query of the interactive pass and of the static pass answer.
analyze_uncached(doc, file, is_ready, schema, q1, q2, wok, now) ==
  analyze_outcome(doc, file,
    map_template_fields(raw_fields(doc), file, is_ready, schema, q1, wok, now),
    map_template_fields(scan_for_static_fields(doc), file, is_ready, schema, q2, wok, now))

\* analyze_template (main.py:220-343).
analyze_template(tmpl, file, is_ready, schema, q1, q2, wok, now) ==
  IF cache_valid(tmpl, file)
  THEN [kind |-> "ok", val |-> file.mappings, file |-> file,
        strategy |-> "cache", qfail |-> FALSE, searched |-> FALSE]
  ELSE analyze_uncached(tmpl.doc, file, is_ready, schema, q1, q2, wok, now)

\* ------------------------------------------------------------ filling

\* record.get(key, '')
record_get(record, key) == IF key \in DOMAIN record THEN record[key] ELSE ""

\* not str(val).strip()
IsBlank(val) == str_strip(Chars(val)) = <<>>

\* str(val).lower() in ['true', 'yes', '1', 'on'] (main.py:453)
CheckboxTruthy(val) == str_lower(Chars(val)) \in {<<"t","r","u","e">>, <<"y","e","s">>, <<"1">>, <<"o","n">>}

\* f.get('source') == 'acroform' and f.get('id') (main.py:447)
UsesAcroForm(f) == f.source = "acroform" /\ Truthy(f.id)

\* The value for an interactive field if a checkbox without a tick were
\* switched off.
acro_value_forcing_off(f, val) ==
  IF f.type = "checkbox"
  THEN IF CheckboxTruthy(val)
       THEN (IF f.export_options # <<>> THEN f.export_options[1] ELSE "/Yes")
       ELSE "/Off"
  ELSE val

\* The value fill stores for an interactive field, Absent when it stores
\* none (an unticked checkbox).
acro_value(f, val) ==
  IF f.type = "checkbox"
  THEN IF CheckboxTruthy(val)
       THEN (IF f.export_options # <<>> THEN f.export_options[1] ELSE "/Yes")
       ELSE Absent
  ELSE val

\* Whether fill takes the field for the interactive form's values.
FillsAcro(f, record) ==
  /\ ~IsBlank(record_get(record, f.name))
  /\ UsesAcroForm(f)
  /\ acro_value(f, record_get(record, f.name)) # Absent

\* acroform_data (main.py:438-461): internal name -> value, a later field
\* of the same id replacing an earlier one.
acroform_data(fields, record) ==
  LET idx == {i \in 1..Len(fields) : FillsAcro(fields[i], record)}
      lastOf(id) == SetMax({i \in idx : fields[i].id = id})
  IN [id \in {fields[i].id : i \in idx} |->
        acro_value(fields[lastOf(id)], record_get(record, fields[lastOf(id)].name))]

\* min(12, ...) (main.py:543)
MaxFontSize == 12

\* The font size were the height taken whole: min(12, h).
max_font_size_of_height(h) ==
  IF 100 * MaxFontSize <= 10 * h THEN 100 * MaxFontSize ELSE 10 * h

\* max_font_size = min(12, h * 0.8) (main.py:543) in hundredths of a point,
\* for a height h in tenths.
max_font_size(h) == IF 100 * MaxFontSize <= 8 * h THEN 100 * MaxFontSize ELSE 8 * h

\* _draw_text_field (main.py:536-554): the stripped text, its font size and
\* the point drawString is given, in hundredths of a point; x, y, w, h are
\* in tenths.
draw_text_field(text, x, y, w, h) ==
  [text |-> Str(str_strip(Chars(text))),
   font_size |-> max_font_size(h),
   x |-> 10 * x + 200,
   y |-> 10 * y + 5 * h - (max_font_size(h) \div 2) + 100]

\* The drawing _apply_overlay makes for a rectangle (main.py:523-529).
draw_in_rect(text, rect) ==
  draw_text_field(text,
                  IF rect[1] < rect[3] THEN rect[1] ELSE rect[3],
                  IF rect[2] < rect[4] THEN rect[2] ELSE rect[4],
                  AbsDiff(rect[3], rect[1]), AbsDiff(rect[4], rect[2]))

\* What _apply_overlay draws for the fields fill left to the overlay
\* (main.py:462-464, 514-530), each field being on a page of the document.
overlay_drawings(fields, record) ==
  LET draws(f) == /\ ~IsBlank(record_get(record, f.name))
                  /\ ~UsesAcroForm(f)
                  /\ f.rect # NoRect
      pick[i \in 0..Len(fields)] ==
        IF i = 0 THEN <<>>
        ELSE IF draws(fields[i])
             THEN Append(pick[i-1],
                         [id |-> fields[i].id, rect |-> fields[i].rect,
                          drawn |-> draw_in_rect(record_get(record, fields[i].name),
                                                 fields[i].rect)])
             ELSE pick[i-1]
  IN pick[Len(fields)]

\* The form root as the native update leaves it when the /AcroForm entry
\* is not created.
form_root_kept(root, data) ==
  IF DOMAIN data # {} /\ root.exists
  THEN [exists |-> TRUE, need_appearances |-> TRUE]
  ELSE root

\* The writer's form root after the native update (main.py:469-482): with
\* values to write the /AcroForm entry is created if missing and
\* /NeedAppearances set; without any the root stays as appended.
form_root(root, data) ==
  IF DOMAIN data # {}
  THEN [exists |-> TRUE, need_appearances |-> TRUE]
  ELSE root

\* The document UniversalDocumentFiller.fill writes (main.py:431-501); root
\* is the writer's form root after writer.append(reader).
filled_document(fields, record, root) ==
  [acroform_data |-> acroform_data(fields, record),
   acroform |-> form_root(root, acroform_data(fields, record)),
   overlay |-> overlay_drawings(fields, record)]

\* record.get('registered_name', 'Unknown')
registered_name(record) ==
  IF "registered_name" \in DOMAIN record THEN record["registered_name"] ELSE "Unknown"

IsNameChar(c) == IsAlpha(c) \/ IsDigit(c) \/ c = " "
\* safe_name (main.py:571-572)
safe_name(record) ==
  Str(str_replace(str_strip(SelectSeq(Chars(registered_name(record)), IsNameChar)),
                  " ", "_"))

\* run_id = str(uuid.uuid4()) (main.py:570): a run id is the pair of its
\* leading characters, which no two runs are taken to share, and its last
\* six, which are random.
RunId(head, tail) == [head |-> head, tail |-> tail]

\* The audit entry fill_single_record hands to AuditLogger.log_run
\* (main.py:581-590).  name is the safe_name computed from the record; the
\* output and the snapshot are named by it and run_id[-6:].  The output
\* directory is the one of the day (main.py:567-568); all runs here are of
\* one day.
run_data(record, name, template_filename, run, now, mapping_snapshot) ==
  [run_id |-> run,
   template_id |-> template_filename,
   operator_id |-> IF "operator_id" \in DOMAIN record THEN record["operator_id"]
                   ELSE "system",
   timestamp |-> now,
   mapping_snapshot_id |-> [safe_name |-> name, run |-> run.tail],
   mapping_snapshot |-> mapping_snapshot,
   input_payload_keys |-> DOMAIN record,
   filled_pdf_path |-> [safe_name |-> name, run |-> run.tail,
                        template |-> template_filename]]

\* ------------------------------------------ canonical schema service
\* CanonicalSchemaService.fields is a dict; it is kept as the sequence of
\* its [key, field] items in insertion order.

\* A CanonicalField, with the attributes the operations tell apart.
CanonicalField(field_id, canonical_name) ==
  [field_id |-> field_id, canonical_name |-> canonical_name]

\* The schema file does not exist.
NoSchemaFile == [exists |-> FALSE, data |-> <<>>]

dict_has(d, k) == \E i \in DOMAIN d : d[i].key = k

dict_get(d, k) == d[CHOOSE i \in DOMAIN d : d[i].key = k].field

\* d[k] = v: an existing key keeps its place.
dict_set(d, k, v) ==
  IF dict_has(d, k)
  THEN [i \in DOMAIN d |-> IF d[i].key = k THEN [key |-> k, field |-> v] ELSE d[i]]
  ELSE Append(d, [key |-> k, field |-> v])

\* del d[k]
dict_del(d, k) == SelectSeq(d, LAMBDA item : item.key # k)

\* list(self.fields.values())
get_all_fields(fields) == [i \in DOMAIN fields |-> fields[i].field]

\* The items of the schema file read one after the other into fields.
RECURSIVE load_items(_, _)
load_items(fields, data) ==
  IF data = <<>> THEN fields
  ELSE load_items(dict_set(fields, Head(data).field_id, Head(data)), Tail(data))

\* CanonicalSchemaService.load_schema: nothing is read when the file is
\* missing; the fields already held are not cleared.
load_schema(fields, file) ==
  IF ~file.exists THEN fields ELSE load_items(fields, file.data)

\* CanonicalSchemaService.save_schema: what the file holds afterwards.
save_schema(fields) == [exists |-> TRUE, data |-> get_all_fields(fields)]

\* CanonicalSchemaService.add_field up to its save_schema call.
add_field(fields, field_data) ==
  IF dict_has(fields, field_data.field_id)
  THEN [kind |-> "ValueError", fields |-> fields]
  ELSE [kind |-> "ok",
        fields |-> dict_set(fields, field_data.field_id, field_data)]

\* setattr(field, k, v) for every key of updates the field has.
updated_field(field, updates) ==
  [k \in DOMAIN field |-> IF k \in DOMAIN updates THEN updates[k] ELSE field[k]]

\* CanonicalSchemaService.update_field up to its save_schema call.
update_field(fields, field_id, updates) ==
  IF ~dict_has(fields, field_id)
  THEN [kind |-> "KeyError", fields |-> fields]
  ELSE [kind |-> "ok",
        fields |-> dict_set(fields, field_id,
                            updated_field(dict_get(fields, field_id), updates))]

\* CanonicalSchemaService.delete_field up to its save_schema call.
delete_field(fields, field_id) ==
  [kind |-> "ok", saves |-> dict_has(fields, field_id),
   fields |-> dict_del(fields, field_id)]

\* ------------------------------------------------------ section context
\* A header find_section_headers found on a page: (y, text), y in tenths
\* of a point.
Header(y, text) == [y |-> y, text |-> text]

\* One header put into a list sorted by y descending, after the headers of
\* the same y already there.
insert_header(sorted, h) ==
  LET before == SelectSeq(sorted, LAMBDA g : g.y >= h.y)
      after == SelectSeq(sorted, LAMBDA g : g.y < h.y)
  IN before \o <<h>> \o after

\* headers.sort(key=lambda x: x[0], reverse=True) (main.py:154-155): by y,
\* top to bottom; headers of equal y keep their order.
RECURSIVE sort_headers(_)
sort_headers(headers) ==
  IF headers = <<>> THEN <<>>
  ELSE insert_header(sort_headers(SubSeq(headers, 1, Len(headers) - 1)),
                     headers[Len(headers)])

\* The lower edge of the rectangle.
field_y_lower(rect) ==
  IF rect = NoRect THEN 0 ELSE IF rect[2] <= rect[4] THEN rect[2] ELSE rect[4]

\* field_y = max(float(rect[1]), float(rect[3])), 0 without a rectangle
\* (main.py:279-281).
field_y(rect) ==
  IF rect = NoRect THEN 0 ELSE IF rect[2] >= rect[4] THEN rect[2] ELSE rect[4]

\* The loop over the page's headers (main.py:283-287): every header above
\* field_y replaces the section, the first one not above ends the loop.
RECURSIVE scan_headers(_, _, _)
scan_headers(headers, y, detected_section) ==
  IF headers = <<>> THEN detected_section
  ELSE IF Head(headers).y > y THEN scan_headers(Tail(headers), y, Head(headers).text)
  ELSE detected_section

\* detected_section for a field with rectangle rect on a page whose
\* headers are given as found (main.py:277-287).
detected_section(headers, rect) ==
  scan_headers(sort_headers(headers), field_y(rect), "General")
\* ------------------------------------------------------ state machine

VARIABLES
  templates,    \* template id -> [doc, mtime]: the files of the templates directory
  mapfiles,     \* sanitized name -> the mapping file of that name
  is_ready,     \* RealRAGService.is_ready
  schema,       \* RealRAGService.schema_collection: label -> its ranked candidates
  corrections,  \* the lines of corrections.log
  clock,        \* the file system's time
  filled,       \* the documents written to the output directory
  run_history,  \* the lines of run_history.jsonl
  snapshots,    \* the mapping snapshot files
  runs,         \* how many fill runs have started
  last,         \* the last operation, its arguments and what it returned
  overrides,    \* history: the human updates that found their field
  canonical_fields,  \* CanonicalSchemaService.fields
  schema_file,  \* the canonical schema file
  inflight      \* caller -> the request it is in the middle of

vars == <<templates, mapfiles, is_ready, schema, corrections, clock, filled, run_history,
          snapshots, runs, last, overrides, canonical_fields, schema_file,
          inflight>>

\* The state of the canonical schema service, and the rest but last.
schema_vars == <<canonical_fields, schema_file>>
service_vars == <<templates, mapfiles, is_ready, schema, corrections, clock, filled,
                  run_history, snapshots, runs, overrides, inflight>>

\* The callers whose requests the server handles in threads of their own,
\* and a caller between two requests.
Callers == {"c1", "c2"}
Idle == [op |-> "idle"]

MaxClock == 1
MaxLog == 2
MaxRuns == 2

TemplateIds == {"form.pdf"}

\* The template service's files before any request, for the templates ids.
InitFilesOf(ids, docs, schemas) ==
  /\ templates \in [ids -> {[doc |-> d, mtime |-> 0] : d \in docs}]
  /\ schema \in schemas
  /\ mapfiles = [p \in {get_mapping_file_path(t) : t \in ids} |-> NoFile]
  /\ is_ready \in BOOLEAN
  /\ corrections = <<>>
  /\ clock = 0
  /\ filled = {}
  /\ run_history = <<>>
  /\ snapshots = {}
  /\ runs = 0
  /\ last = [op |-> "init"]
  /\ overrides = {}
  /\ inflight = [p \in Callers |-> Idle]

InitFiles(docs, schemas) == InitFilesOf(TemplateIds, docs, schemas)

InitWith(docs, schemas) ==
  /\ InitFiles(docs, schemas)
  /\ schema_file = NoSchemaFile
  /\ canonical_fields = load_schema(<<>>, schema_file)

\* The end of an analyze_template call that returned or raised r.
AnalyzeDone(t, path, r) ==
  /\ last' = [op |-> "analyze", template |-> t, kind |-> r.kind,
              val |-> r.val, strategy |-> r.strategy, qfail |-> r.qfail,
              searched |-> r.searched,
              ready |-> is_ready, had_file |-> mapfiles[path].exists]
  /\ mapfiles' = [mapfiles EXCEPT ![path] = r.file]
  /\ UNCHANGED <<templates, is_ready, schema, corrections, clock, filled,
                 run_history, snapshots, runs, overrides>>
  /\ UNCHANGED <<schema_vars, inflight>>

AnalyzeAt(t, path, wok) ==
  \E q1, q2 \in BOOLEAN :
    AnalyzeDone(t, path,
                analyze_template(templates[t], mapfiles[path], is_ready, schema,
                                 q1, q2, wok, clock))

\* A call of main.analyze_template for template t.
Analyze(t, wok) == AnalyzeAt(t, get_mapping_file_path(t), wok)

\* GET /template_fields (app.py:244-253).
AnalyzeTemplate == \E t \in DOMAIN templates : Analyze(t, TRUE)

\* The ids a caller may name in a request: the document's own field ids
\* and an id no field has.
DocFieldIds(doc) ==
  {doc.widgets[i].name : i \in 1..Len(doc.widgets)}
  \cup {scan_for_static_fields(doc)[i].id : i \in 1..Len(scan_for_static_fields(doc))}

RequestFieldIds(t) == DocFieldIds(templates[t].doc) \cup {"zz"}
RequestCanonicalIds == {"first_name", ""}
RequestStatuses == {Absent, "rejected"}

\* The argument check of the /update_mapping route (app.py:263).
RouteArgsOk(template_name, field_id, canonical_id) ==
  Truthy(template_name) /\ Truthy(field_id) /\ Truthy(canonical_id)

\* data.get('status', 'manual_override') (app.py:261)
RouteStatus(status) == IF status = Absent THEN "manual_override" ELSE status

\* The history of human updates after one more found its field.
overridden(t, f, c) ==
  {o \in overrides : ~(o.template = t /\ o.field_id = f)}
  \cup {[template |-> t, field_id |-> f, canonical_id |-> c, modified |-> FALSE]}

\* The end of an engine.update_mapping call with outcome r.
UpdateDone(t, path, f, c, status, r) ==
  /\ Len(r.log) <= MaxLog
  /\ mapfiles' = [mapfiles EXCEPT ![path] = r.file]
  /\ corrections' = r.log
  /\ last' = [op |-> "update", template |-> t, field_id |-> f,
              canonical_id |-> c, status |-> status,
              kind |-> "ok", found |-> r.found]
  /\ overrides' = IF r.found THEN overridden(t, f, c) ELSE overrides
  /\ UNCHANGED <<templates, is_ready, schema, clock, filled, run_history,
                 snapshots, runs>>
  /\ UNCHANGED <<schema_vars, inflight>>

\* The route answers 400 and nothing changes.
UpdateRejected(t, f, c, status) ==
  /\ last' = [op |-> "update", template |-> t, field_id |-> f,
              canonical_id |-> c, status |-> status,
              kind |-> "400", found |-> FALSE]
  /\ UNCHANGED <<templates, mapfiles, is_ready, schema, corrections, clock,
                 filled, run_history, snapshots, runs, overrides>>
  /\ UNCHANGED <<schema_vars, inflight>>

UpdateAt(t, path, f, c, status) ==
  IF ~RouteArgsOk(t, f, c)
  THEN UpdateRejected(t, f, c, status)
  ELSE UpdateDone(t, path, f, c, status,
                  update_mapping(mapfiles[path], corrections, t, f, c,
                                 status, "human", clock))

\* POST /update_mapping (app.py:255-268) with engine.update_mapping.
UpdateMapping ==
  \E t \in DOMAIN templates :
  \E f \in RequestFieldIds(t), c \in RequestCanonicalIds, st \in RequestStatuses :
    UpdateAt(t, get_mapping_file_path(t), f, c, RouteStatus(st))

\* The template file is replaced or edited: its modification time moves on.
TouchTemplate ==
  \E t \in DOMAIN templates :
    /\ clock < MaxClock
    /\ clock' = clock + 1
    /\ templates' = [templates EXCEPT ![t].mtime = clock + 1]
    /\ overrides' = {IF o.template = t THEN [o EXCEPT !.modified = TRUE] ELSE o :
                       o \in overrides}
    /\ last' = [op |-> "touch", template |-> t]
    /\ UNCHANGED <<mapfiles, is_ready, schema, corrections, filled, run_history,
                   snapshots, runs>>
    /\ UNCHANGED <<schema_vars, inflight>>

\* The process restarts: RealRAGService.__init__ runs again and the
\* similarity search comes up ready or not (rag_service.py:14-38).
RestartService ==
  /\ is_ready' \in BOOLEAN
  /\ last' = [op |-> "restart"]
  /\ UNCHANGED <<templates, mapfiles, schema, corrections, clock, filled, run_history,
                 snapshots, runs, overrides>>
  /\ UNCHANGED <<schema_vars, inflight>>

\* The records the fill requests carry: two that differ only in the value
\* of registered_name, and one without a name whose gender is blank.
FillRecords ==
  { [registered_name |-> "Ann Lee", gender |-> "F"],
    [registered_name |-> "Bob", gender |-> "F"],
    [operator_id |-> "op7", gender |-> " "] }

\* The records filled into the one-checkbox forms: a value that reads as a
\* tick and one that does not.
CheckRecords ==
  { [registered_name |-> "Bob", gender |-> "Yes"],
    [registered_name |-> "Bob", gender |-> "no"] }

\* The last six characters a run id may end in.
RunTails == {"a1b2c3", "d4e5f6"}

\* AuditLogger.log_run (main.py:25-50): each write is guarded on its own;
\* hok and sok say whether the history append and the snapshot write succeed.
log_run_history(history, entry, hok) == IF hok THEN Append(history, entry) ELSE history
log_run_snapshots(snaps, entry, sok) ==
  IF sok
  THEN {s \in snaps : s.id # entry.mapping_snapshot_id}
       \cup {[id |-> entry.mapping_snapshot_id, mappings |-> entry.mapping_snapshot]}
  ELSE snaps

\* fill_single_record after the filler wrote the document: the audit entry
\* is logged and the output path returned (main.py:580-593).
FillLogged(t, record, root, hok, sok, doc, entry) ==
  /\ filled' = {d \in filled : d.path # entry.filled_pdf_path}
               \cup {[path |-> entry.filled_pdf_path, doc |-> doc]}
  /\ run_history' = log_run_history(run_history, entry, hok)
  /\ snapshots' = log_run_snapshots(snapshots, entry, sok)
  /\ last' = [op |-> "fill", template |-> t, kind |-> "ok", qfail |-> FALSE,
              path |-> entry.filled_pdf_path, record |-> record,
              fields |-> entry.mapping_snapshot, doc |-> doc,
              entry |-> entry, hok |-> hok, sok |-> sok,
              root |-> root]

\* The end of a fill whose analysis returned or raised r.
FillDone(t, path, record, tail, hok, sok, r) ==
  /\ runs' = runs + 1
  /\ mapfiles' = [mapfiles EXCEPT ![path] = r.file]
  /\ IF r.kind = "raise"
     THEN /\ last' = [op |-> "fill", template |-> t, kind |-> "raise",
                      qfail |-> r.qfail, path |-> None]
          /\ UNCHANGED <<filled, run_history, snapshots>>
     ELSE FillLogged(t, record, templates[t].doc.writer_root, hok, sok,
                     filled_document(r.val, record, templates[t].doc.writer_root),
                     run_data(record, safe_name(record), t, RunId(runs + 1, tail),
                              clock, r.val))
  /\ UNCHANGED <<templates, is_ready, schema, corrections, clock, overrides>>
  /\ UNCHANGED <<schema_vars, inflight>>

\* A fill of one of the records whose analysis returned or raised r; hok
\* and sok say whether the run history and the snapshot file can be written.
FillWith(t, path, records, r) ==
  \E record \in records, tail \in RunTails, hok, sok \in BOOLEAN :
    FillDone(t, path, record, tail, hok, sok, r)

\* wok says whether the mapping file can be written.
FillAt(t, path, records) ==
  \E q1, q2, wok \in BOOLEAN :
    FillWith(t, path, records,
             analyze_template(templates[t], mapfiles[path], is_ready, schema,
                              q1, q2, wok, clock))

\* main.fill_single_record (main.py:557-593) for an existing template, with
\* UniversalDocumentFiller.fill.
FillSingleRecord ==
  \E t \in DOMAIN templates :
    /\ runs < MaxRuns
    /\ FillAt(t, get_mapping_file_path(t), FillRecords)

\* fill_single_record for a record of a one-checkbox form.
FillCheckbox ==
  \E t \in DOMAIN templates :
    /\ runs < MaxRuns
    /\ FillAt(t, get_mapping_file_path(t), CheckRecords)

\* The field ids, names and request bodies of the schema routes.
SchemaIds == {"gender", "dob"}
SchemaNames == {"Gender", "Sex"}
FieldData == {CanonicalField(i, n) : i \in SchemaIds, n \in SchemaNames}
UpdateBodies ==
  {[canonical_name |-> n] : n \in SchemaNames}
  \cup {[field_id |-> i] : i \in SchemaIds}
  \cup {[nickname |-> "x"]}

\* The end of a schema operation that left fields in memory and called
\* save_schema or not; wok says whether the schema file can be written.
SchemaDone(op, arg, kind, fields, saves, wok) ==
  /\ canonical_fields' = fields
  /\ schema_file' = IF saves /\ wok THEN save_schema(fields) ELSE schema_file
  /\ last' = [op |-> op, arg |-> arg,
              kind |-> IF saves /\ ~wok THEN "500" ELSE kind]
  /\ UNCHANGED service_vars

AddWith(field_data, wok, r) ==
  IF r.kind = "ValueError"
  THEN SchemaDone("add_field", field_data, "400", r.fields, FALSE, wok)
  ELSE SchemaDone("add_field", field_data, "201", r.fields, TRUE, wok)

\* POST /canonical_schema (app.py:66-76) with add_field.
AddCanonicalField ==
  \E field_data \in FieldData, wok \in BOOLEAN :
    AddWith(field_data, wok, add_field(canonical_fields, field_data))

UpdateWith(field_id, wok, r) ==
  IF r.kind = "KeyError"
  THEN SchemaDone("update_field", field_id, "404", r.fields, FALSE, wok)
  ELSE SchemaDone("update_field", field_id, "200", r.fields, TRUE, wok)

\* PUT /canonical_schema/<field_id> (app.py:78-88) with update_field.
UpdateCanonicalField ==
  \E field_id \in SchemaIds, updates \in UpdateBodies, wok \in BOOLEAN :
    UpdateWith(field_id, wok, update_field(canonical_fields, field_id, updates))

DeleteWith(field_id, wok, r) ==
  SchemaDone("delete_field", field_id, "200", r.fields, r.saves, wok)

\* DELETE /canonical_schema/<field_id> (app.py:90-97) with delete_field.
DeleteCanonicalField ==
  \E field_id \in SchemaIds, wok \in BOOLEAN :
    DeleteWith(field_id, wok, delete_field(canonical_fields, field_id))

\* load_schema called on the live service.
LoadSchema ==
  SchemaDone("load_schema", None, "ok",
             load_schema(canonical_fields, schema_file), FALSE, TRUE)

\* The process restarts and get_schema_service builds the service anew.
RestartSchemaService ==
  SchemaDone("init", None, "ok", load_schema(<<>>, schema_file), FALSE, TRUE)

Next == AnalyzeTemplate \/ UpdateMapping \/ TouchTemplate \/ RestartService

\* The vector store of the main specification: both labels it is asked
\* about sit at the High/Medium boundary, with a close second candidate.
MainSchema ==
  [l \in QueryLabels |-> <<Candidate("gender", 40), Candidate("first_name", 43)>>]

Spec == InitWith({DocAcro}, {MainSchema}) /\ [][Next]_vars

\* Mapping alone: the main form over every content of the vector store,
\* and the one-field forms of the synonym spellings and of "Date of Birth".
InitMap ==
  \/ InitWith({DocAcro}, [QueryLabels -> CandLists])
  \/ InitWith(SynonymDocs \cup {DocDob} \cup FlatDocs, {MainSchema})

NextMap == AnalyzeTemplate \/ TouchTemplate \/ RestartService

SpecMap == InitMap /\ [][NextMap]_vars

\* Filling and its audit trail.
NextFill == FillSingleRecord \/ TouchTemplate

SpecFill == InitWith({DocAcro, DocAcroBare}, {MainSchema}) /\ [][NextFill]_vars

\* Filling one-checkbox forms.
NextCheck == FillCheckbox \/ TouchTemplate

SpecCheck == InitWith(CheckDocs, {MainSchema}) /\ [][NextCheck]_vars

\* The canonical schema service over a schema file that is missing or
\* holds one field.
InitSchema ==
  /\ InitFiles({DocAcro}, {MainSchema})
  /\ schema_file \in {NoSchemaFile,
                      save_schema(<<[key |-> "gender",
                                     field |-> CanonicalField("gender", "Gender")]>>)}
  /\ canonical_fields = load_schema(<<>>, schema_file)

NextSchema ==
  \/ AddCanonicalField
  \/ UpdateCanonicalField
  \/ DeleteCanonicalField
  \/ LoadSchema
  \/ RestartSchemaService

SpecSchema == InitSchema /\ [][NextSchema]_vars

\* The rectangles overlay fields are drawn into: corners in either order,
\* heights from 0 to 20 points in steps of half a point.
OverlaySteps == 40
OverlayRects ==
  {<<x1, y1, x2, 7000 + 5 * k>> :
     x1 \in {1000, 2500}, x2 \in {1000, 2500}, y1 \in {7000, 7150},
     k \in 0..OverlaySteps}
OverlayTexts == {"John Doe", "F"}

\* _apply_overlay reaches a field with a value and a rectangle and draws it
\* (main.py:515-529).
ApplyOverlay ==
  \E rect \in OverlayRects, text \in OverlayTexts :
    /\ last' = [op |-> "overlay", rect |-> rect, text |-> text,
                drawn |-> draw_in_rect(text, rect)]
    /\ UNCHANGED service_vars
    /\ UNCHANGED schema_vars

SpecOverlay == InitWith({DocAcro}, {MainSchema}) /\ [][ApplyOverlay]_vars

\* ------------------------------------------- requests handled in threads
\* The development server runs each request in a thread of its own, so a
\* request that reads the mapping file and writes it later can have another
\* request's steps in between.

\* A file whose records present in a newer file are kept from that file.
overwritten_unless_override(file, field_mappings, now) ==
  IF \E i \in DOMAIN file.mappings : file.mappings[i].mapping_status \in PreservedStatuses
  THEN [file EXCEPT !.mtime = now]
  ELSE save_mappings(field_mappings, now)

\* open(path, 'w') and json.dump (mapping_engine.py:52-53): whatever the
\* file held is replaced by the list of the caller.
overwritten(file, field_mappings, now) == save_mappings(field_mappings, now)

\* Whether an analysis with result r reached its save_mappings call.
Saves(r) == r.kind = "ok" /\ r.strategy \in {"acroform", "static"}

\* analyze_template up to the call of save_mappings: the cache check, the
\* discovery, load_saved_params and the search have happened, r is what the
\* call is going to return.
BeginAnalyzeWith(p, t, path, r) ==
  /\ inflight' = [inflight EXCEPT ![p] = [op |-> "analyze", template |-> t,
                                          read |-> mapfiles[path], r |-> r]]
  /\ last' = [op |-> "begin", caller |-> p, template |-> t]
  /\ UNCHANGED <<templates, mapfiles, is_ready, schema, corrections, clock, filled,
                 run_history, snapshots, runs, overrides, schema_vars>>

BeginAnalyzeAt(p, t, path) ==
  \E q1, q2, wok \in BOOLEAN :
    BeginAnalyzeWith(p, t, path,
                     analyze_template(templates[t], mapfiles[path], is_ready, schema,
                                      q1, q2, wok, clock))

BeginAnalyze ==
  \E p \in Callers, t \in DOMAIN templates :
    /\ inflight[p] = Idle
    /\ BeginAnalyzeAt(p, t, get_mapping_file_path(t))

\* save_mappings and the return of analyze_template (mapping_engine.py:165-166).
EndAnalyzeAt(p, t, path, read, r) ==
  /\ mapfiles' = IF Saves(r)
                 THEN [mapfiles EXCEPT ![path] = overwritten(mapfiles[path], r.val, clock)]
                 ELSE mapfiles
  /\ inflight' = [inflight EXCEPT ![p] = Idle]
  /\ last' = [op |-> "analyze", template |-> t, kind |-> r.kind, val |-> r.val,
              strategy |-> r.strategy, qfail |-> r.qfail, searched |-> r.searched,
              ready |-> is_ready, had_file |-> read.exists,
              caller |-> p, read |-> read, saves |-> Saves(r)]
  /\ UNCHANGED <<templates, is_ready, schema, corrections, clock, filled,
                 run_history, snapshots, runs, overrides, schema_vars>>

EndAnalyze ==
  \E p \in Callers :
    /\ inflight[p].op = "analyze"
    /\ EndAnalyzeAt(p, inflight[p].template, get_mapping_file_path(inflight[p].template),
                    inflight[p].read, inflight[p].r)

\* update_mapping after load_saved_params (mapping_engine.py:175-177), for
\* a request that passed the route's argument check.
BeginUpdateAt(p, t, path, f, c, status) ==
  /\ RouteArgsOk(t, f, c)
  /\ inflight' = [inflight EXCEPT ![p] = [op |-> "update", template |-> t,
                                          read |-> mapfiles[path], field_id |-> f,
                                          canonical_id |-> c, status |-> status]]
  /\ last' = [op |-> "begin", caller |-> p, template |-> t]
  /\ UNCHANGED <<templates, mapfiles, is_ready, schema, corrections, clock, filled,
                 run_history, snapshots, runs, overrides, schema_vars>>

\* The updates of the interleaved runs name a widget of the form and the
\* canonical id first_name, and leave the status to its default.
BeginUpdate ==
  \E p \in Callers, t \in DOMAIN templates :
  \E i \in DOMAIN templates[t].doc.widgets :
    /\ inflight[p] = Idle
    /\ BeginUpdateAt(p, t, get_mapping_file_path(t), templates[t].doc.widgets[i].name,
                     "first_name", RouteStatus(Absent))

\* The rest of update_mapping: the record is rewritten in the list that was
\* read and the list saved (mapping_engine.py:179-203).
EndUpdateAt(p, req, path, r) ==
  /\ Len(r.log) <= MaxLog
  /\ mapfiles' = [mapfiles EXCEPT
                    ![path] = overwritten(mapfiles[path], r.file.mappings, clock)]
  /\ corrections' = r.log
  /\ inflight' = [inflight EXCEPT ![p] = Idle]
  /\ last' = [op |-> "update", template |-> req.template, field_id |-> req.field_id,
              canonical_id |-> req.canonical_id, status |-> req.status,
              kind |-> "ok", found |-> r.found, caller |-> p, read |-> req.read,
              val |-> r.file.mappings]
  /\ overrides' = IF r.found
                  THEN overridden(req.template, req.field_id, req.canonical_id)
                  ELSE overrides
  /\ UNCHANGED <<templates, is_ready, schema, clock, filled, run_history,
                 snapshots, runs, schema_vars>>

EndUpdateOf(p, req) ==
  EndUpdateAt(p, req, get_mapping_file_path(req.template),
              update_mapping(req.read, corrections, req.template, req.field_id,
                             req.canonical_id, req.status, "human", clock))

EndUpdate ==
  \E p \in Callers :
    /\ inflight[p].op = "update"
    /\ EndUpdateOf(p, inflight[p])

NextRace == BeginAnalyze \/ EndAnalyze \/ BeginUpdate \/ EndUpdate

SpecRace == InitWith({DocAcro}, {MainSchema}) /\ [][NextRace]_vars

\* POST /update_mapping whose canonical id is the id of a field of the
\* form, as for a widget named after the canonical field it holds.
UpdateToFieldId ==
  \E t \in DOMAIN templates :
  \E f \in RequestFieldIds(t), c \in DocFieldIds(templates[t].doc) :
    UpdateAt(t, get_mapping_file_path(t), f, c, RouteStatus(Absent))

NextInherit == AnalyzeTemplate \/ UpdateToFieldId \/ TouchTemplate

SpecInherit == InitWith({DocAcro}, {MainSchema}) /\ [][NextInherit]_vars

\* Two templates uploaded under names that differ in a space
\* (app.py:51-58 saves a file under the name the client gave).
TwoTemplateIds == {"form1.pdf", "form 1.pdf"}

InitTwo ==
  /\ InitFilesOf(TwoTemplateIds, {DocAcro, DocDob}, {MainSchema})
  /\ schema_file = NoSchemaFile
  /\ canonical_fields = load_schema(<<>>, schema_file)

NextTwo == AnalyzeTemplate \/ TouchTemplate

SpecTwo == InitTwo /\ [][NextTwo]_vars

\* The headers of a page and the rectangles of its fields: headers below,
\* inside and above the band of the rectangle, which is given bottom first,
\* top first or not at all.
HeaderYs == {6900, 7100, 7300, 7500}
HeaderTexts == {"PART A", "PART B"}
PageHeaders == {Header(y, text) : y \in HeaderYs, text \in HeaderTexts}
MaxHeaders == 2
HeaderLists ==
  UNION {[1..n -> PageHeaders] : n \in 0..MaxHeaders}
SectionRects == {<<1000, 7000, 2500, 7200>>, <<1000, 7200, 2500, 7000>>, NoRect}

\* The section context of one field (main.py:277-287).
DetectSection ==
  \E headers \in HeaderLists, rect \in SectionRects :
    /\ last' = [op |-> "section", headers |-> headers, rect |-> rect,
                section |-> detected_section(headers, rect)]
    /\ UNCHANGED service_vars
    /\ UNCHANGED schema_vars

SpecSection == InitWith({DocAcro}, {MainSchema}) /\ [][DetectSection]_vars

\* ------------------------------------------------------------- claims

\* The records of the mapping file of template t.
StoreOf(t) == mapfiles[get_mapping_file_path(t)].mappings

\* The last operation was an analysis that returned a list.
Analysed == last.op = "analyze" /\ last.kind = "ok"

\* ... and the list came from map_template_fields, not from the cache.
Mapped == Analysed /\ last.strategy \in {"acroform", "static"}

\* A record made by the tiers of map_template_fields rather than copied
\* from history: only the tiers set original_name beside mapping_source.
TierSources == {"auto_embedding_strong", "auto_embedding_weak", "Unmapped"}

\* C1: a field with no preserved prior mapping whose normalized label is a
\* key of the synonym table is mapped to the table's canonical id with
\* confidence High, whether or not the similarity search is ready.
C1_SynonymAlwaysHigh ==
  Mapped =>
    \A i \in DOMAIN last.val :
      (/\ last.val[i].mapping_source \in TierSources
       /\ synonym_get(label_clean(last.val[i].label)) # None)
      => /\ last.val[i].name = synonym_get(label_clean(last.val[i].label))
         /\ last.val[i].mapping_proposal.canonical_field_id
              = synonym_get(label_clean(last.val[i].label))
         /\ last.val[i].confidence = "High"

\* The tier a record's best distance (in hundredths) puts it in.
C8_Tier(m) ==
  LET scores == m.mapping_proposal.scores
      has == scores # <<>>
  IN /\ (has /\ scores[1] < 40)
          => m.confidence = "High" /\ m.mapping_status = "auto"
     /\ (has /\ scores[1] >= 40 /\ scores[1] < 75)
          => /\ m.confidence = "Medium"
             /\ m.mapping_status = "pending_review"
             /\ m.name = m.mapping_proposal.candidates[1]
     /\ (~has \/ scores[1] >= 75)
          => /\ m.mapping_status = "suggest_new"
             /\ ~Truthy(m.mapping_proposal.canonical_field_id)
             /\ m.name = m.id

C9_DateOfBirthFastPath ==
  (/\ Analysed
   /\ last.ready
   /\ ~last.had_file
   /\ templates[last.template].doc = DocDob)
  => /\ Len(last.val) = 1
     /\ last.val[1].name = "date_of_birth"
     /\ last.val[1].confidence = "High"
     /\ last.val[1].mapping_source # "auto_embedding_strong"

\* C6: when the similarity search is unavailable (not ready, or its query
\* raises) an analysis that maps still returns, and every field it maps by
\* the tiers comes back suggest_new and Unmapped.
C6_DegradesGracefully ==
  (/\ last.op = "analyze"
   /\ last.strategy # "cache"
   /\ (~last.ready \/ last.qfail))
  => /\ last.kind = "ok"
     /\ \A i \in DOMAIN last.val :
          last.val[i].mapping_source \in TierSources
          => /\ last.val[i].mapping_status = "suggest_new"
             /\ last.val[i].mapping_source = "Unmapped"

\* One update step seen from the log: the request named canonical id b for
\* a field whose record proposed a before the step.
C3_Logged(a, b) ==
  /\ (Truthy(a) /\ b # a)
     => /\ Len(corrections') = Len(corrections) + 1
        /\ SubSeq(corrections', 1, Len(corrections)) = corrections
        /\ corrections'[Len(corrections')].ai_guess = a
        /\ corrections'[Len(corrections')].human_correction = b
  /\ b = a => corrections' = corrections

\* The canonical id the record of field_id proposes in a store.
C3_Guess(store, field_id) ==
  store[found_index(store, field_id)].mapping_proposal.canonical_field_id

C2_ApprovedSurvives ==
  [][(/\ last'.op = "analyze" /\ last'.kind = "ok"
      /\ last'.strategy \in {"cache", "acroform"})
     => \A i \in DOMAIN StoreOf(last'.template) :
          StoreOf(last'.template)[i].mapping_status \in PreservedStatuses
          => \E j \in DOMAIN last'.val :
               /\ last'.val[j].id = StoreOf(last'.template)[i].id
               /\ last'.val[j].name = StoreOf(last'.template)[i].name
               /\ last'.val[j].mapping_status
                    = StoreOf(last'.template)[i].mapping_status]_vars

\* The field of an analysis result that a human update named.
C4_Kept(o) ==
  \E j \in DOMAIN last.val :
    last.val[j].id = o.field_id /\ last.val[j].name = o.canonical_id

C5_AuditIgnoresValues ==
  \A i, j \in DOMAIN run_history :
    (/\ run_history[i].template_id = run_history[j].template_id
     /\ run_history[i].input_payload_keys = run_history[j].input_payload_keys)
    => /\ run_history[i].operator_id = run_history[j].operator_id
       /\ run_history[i].mapping_snapshot_id.safe_name
            = run_history[j].mapping_snapshot_id.safe_name
       /\ run_history[i].filled_pdf_path.safe_name
            = run_history[j].filled_pdf_path.safe_name

\* C7: a fill whose similarity search did not fail writes the document and
\* returns its path, whether or not the mapping file, the run history and
\* the snapshot could be written.
C7_FillSurvivesWriteFailure ==
  (last.op = "fill" /\ ~last.qfail)
  => /\ last.kind = "ok"
     /\ \E d \in filled : d.path = last.path

\* C11: the field list an analysis produces for a template holds no two
\* descriptors with the same id, whether they come from the interactive
\* form or from the static scan.
C11_UniqueIds ==
  Analysed =>
    \A i \in DOMAIN last.val : \A j \in DOMAIN last.val :
      last.val[i].id = last.val[j].id => i = j

\* The store of template t after the step.
C12_StoreAfter(t) == mapfiles'[get_mapping_file_path(t)].mappings

\* C12: every record that is in a template's store with status approved or
\* manual_override before an analysis is in the store with the same id,
\* name and status after it.
C12_PreservedNeverLost ==
  [][last'.op = "analyze"
     => \A t \in DOMAIN templates : \A i \in DOMAIN StoreOf(t) :
          StoreOf(t)[i].mapping_status \in PreservedStatuses
          => \E j \in DOMAIN C12_StoreAfter(t) :
               /\ C12_StoreAfter(t)[j].id = StoreOf(t)[i].id
               /\ C12_StoreAfter(t)[j].name = StoreOf(t)[i].name
               /\ C12_StoreAfter(t)[j].mapping_status = StoreOf(t)[i].mapping_status]_vars

\* The mapping file of template t.
C13_File(t) == mapfiles[get_mapping_file_path(t)]

\* The mapping file of t exists, is not older than the template and holds
\* at least one mapping.
C13_Fresh(t) ==
  /\ C13_File(t).exists
  /\ C13_File(t).mtime >= templates[t].mtime
  /\ Len(C13_File(t).mappings) > 0

\* C13: an analysis of a template whose mapping file is not older than the
\* template and holds a mapping returns the stored list as it is, makes no
\* similarity-search call and leaves the mapping files alone; an analysis
\* that follows it directly returns the same list.
C13_CacheVerbatim ==
  [][(last'.op = "analyze" /\ C13_Fresh(last'.template))
     => /\ last'.kind = "ok"
        /\ last'.val = StoreOf(last'.template)
        /\ ~last'.searched
        /\ mapfiles' = mapfiles
        /\ (last.op = "analyze" /\ last.kind = "ok" /\ last.template = last'.template)
             => last'.val = last.val]_vars

\* C13 witness: an analysis was answered with both stored records from a
\* mapping file exactly as old as the template, without a search.
C13_Witness ==
  /\ Analysed /\ last.strategy = "cache" /\ ~last.searched
  /\ C13_File(last.template).mtime = templates[last.template].mtime
  /\ last.val = StoreOf(last.template)
  /\ Len(last.val) = 2

\* What C14 asks of one field f of a fill with value v for it.
C14_Field(f, v, data) ==
  (f.source = "acroform" /\ f.type = "checkbox" /\ ~IsBlank(v))
  => IF str_lower(Chars(v)) \in {<<"t","r","u","e">>, <<"y","e","s">>, <<"1">>, <<"o","n">>}
     THEN /\ f.id \in DOMAIN data
          /\ data[f.id] = (IF f.export_options = <<>> THEN "/Yes"
                           ELSE f.export_options[1])
     ELSE f.id \notin DOMAIN data

\* C14: in a fill, an interactive checkbox whose record value is true, yes,
\* 1 or on in any case is set to the first of its export options, or to
\* /Yes when it has none; with any other non-blank value it is not among
\* the values fill writes.
C14_CheckboxNeverForcedOff ==
  (last.op = "fill" /\ last.kind = "ok")
  => \A i \in DOMAIN last.fields :
       C14_Field(last.fields[i], record_get(last.record, last.fields[i].name),
                 last.doc.acroform_data)

\* C14 witness: a fill ticked a checkbox with export options /Yes and /On
\* as /Yes for the value "Yes".
C14_Witness ==
  /\ last.op = "fill" /\ last.kind = "ok"
  /\ last.record.gender = "Yes"
  /\ \E i \in DOMAIN last.fields :
       /\ last.fields[i].type = "checkbox"
       /\ last.fields[i].name = "gender"
       /\ last.fields[i].export_options = <<"/Yes", "/On">>
       /\ last.doc.acroform_data[last.fields[i].id] = "/Yes"

\* C14 witness of the other case: a fill with the value "no" for a checkbox
\* wrote no value for it.
C14_WitnessUntouched ==
  /\ last.op = "fill" /\ last.kind = "ok"
  /\ last.record.gender = "no"
  /\ \E i \in DOMAIN last.fields :
       /\ last.fields[i].type = "checkbox"
       /\ last.fields[i].name = "gender"
       /\ last.fields[i].id \notin DOMAIN last.doc.acroform_data

\* C15: a fill that directly follows a fill of the same record into the
\* same template (nothing else happened in between) takes a mapping
\* snapshot that agrees with the earlier one field by field on name and
\* mapping_status, under a different run id.
C15_SameSnapshotTwice ==
  [][(/\ last.op = "fill" /\ last.kind = "ok"
      /\ last'.op = "fill" /\ last'.kind = "ok"
      /\ last'.template = last.template /\ last'.record = last.record)
     => /\ Len(last'.fields) = Len(last.fields)
        /\ \A i \in DOMAIN last.fields \cap DOMAIN last'.fields :
             /\ last'.fields[i].name = last.fields[i].name
             /\ last'.fields[i].mapping_status = last.fields[i].mapping_status
        /\ last'.entry.run_id # last.entry.run_id]_vars

\* C16: every completed fill appends exactly its own entry to the run
\* history and writes a snapshot file of its own, and leaves the snapshot
\* files and output documents of earlier runs as they were.
C16_AuditAppendOnly ==
  [][(last'.op = "fill" /\ last'.kind = "ok")
     => /\ run_history' = Append(run_history, last'.entry)
        /\ \A s \in snapshots : s.id # last'.entry.mapping_snapshot_id
        /\ \E s \in snapshots' :
             /\ s.id = last'.entry.mapping_snapshot_id
             /\ s.mappings = last'.entry.mapping_snapshot
        /\ \A s \in snapshots : s \in snapshots'
        /\ \A d \in filled : d \in filled']_vars

\* The statuses the data model allows.
C17_Statuses == {"auto", "pending_review", "suggest_new", "approved", "manual_override"}

\* C17: every record of a mapping file and every record an analysis returns
\* carries one of the five mapping statuses, and an analysis returns no
\* field without the mapping engine's keys.
C17_StatusInSet ==
  /\ \A t \in DOMAIN templates : \A i \in DOMAIN StoreOf(t) :
       StoreOf(t)[i].mapping_status \in C17_Statuses
  /\ Analysed => \A i \in DOMAIN last.val :
       /\ "mapping_status" \in DOMAIN last.val[i]
       /\ last.val[i].mapping_status \in C17_Statuses

\* C18: the fields get_all_fields returns have pairwise different
\* field_ids and each is stored under the key equal to its field_id; an
\* add_field whose field_id is already a key answers with an error and
\* leaves the fields and the schema file as they were.
C18_FieldIdUnique ==
  /\ \A i, j \in DOMAIN get_all_fields(canonical_fields) :
       get_all_fields(canonical_fields)[i].field_id
         = get_all_fields(canonical_fields)[j].field_id => i = j
  /\ \A i \in DOMAIN canonical_fields :
       canonical_fields[i].key = canonical_fields[i].field.field_id

\* C19: a document written by a fill that set at least one native form
\* value has a form root with NeedAppearances true, whether or not the
\* writer had a form root before.
C19_NeedAppearancesSet ==
  \A d \in filled :
    DOMAIN d.doc.acroform_data # {}
    => d.doc.acroform.exists /\ d.doc.acroform.need_appearances

\* C19 witness: the last fill wrote a native value into a writer that had
\* no form root, and its document has one with NeedAppearances true.
C19_Witness ==
  /\ last.op = "fill" /\ last.kind = "ok"
  /\ last.root = NoAcroForm
  /\ DOMAIN last.doc.acroform_data # {}
  /\ last.doc.acroform = [exists |-> TRUE, need_appearances |-> TRUE]
  /\ \E d \in filled : d.path = last.path /\ d.doc = last.doc

\* The height, bottom and left edge of a rectangle, in tenths of a point.
C20_Height(rect) == IF rect[4] >= rect[2] THEN rect[4] - rect[2] ELSE rect[2] - rect[4]
C20_Bottom(rect) == IF rect[2] <= rect[4] THEN rect[2] ELSE rect[4]
C20_Left(rect) == IF rect[1] <= rect[3] THEN rect[1] ELSE rect[3]

\* C20: an overlay text is drawn at font size min(12, 0.8 h), at
\* x = rect_left + 2 and baseline y = rect_bottom + h/2 - font_size/2 + 1;
\* the font size exceeds neither 12 nor the rectangle's height, and is 12
\* for the rectangle [100, 700, 250, 715]. Sizes and the drawing point are
\* in hundredths of a point, the rectangle in tenths.
C20_OverlayGeometry ==
  last.op = "overlay"
  => /\ \/ last.drawn.font_size = 1200 /\ 1200 <= 8 * C20_Height(last.rect)
        \/ last.drawn.font_size = 8 * C20_Height(last.rect)
           /\ 8 * C20_Height(last.rect) <= 1200
     /\ 2 * last.drawn.y = 20 * C20_Bottom(last.rect) + 10 * C20_Height(last.rect)
                           - last.drawn.font_size + 200
     /\ last.drawn.x = 10 * C20_Left(last.rect) + 200
     /\ last.drawn.font_size <= 1200
     /\ last.drawn.font_size <= 10 * C20_Height(last.rect)
     /\ last.rect = <<1000, 7000, 2500, 7150>> => last.drawn.font_size = 1200

\* C20 witness: "John Doe" drawn into [100, 700, 250, 715] at size 12,
\* x = 102 and baseline y = 702.5.
C20_Witness ==
  /\ last.op = "overlay"
  /\ last.rect = <<1000, 7000, 2500, 7150>>
  /\ last.drawn = [text |-> "John Doe", font_size |-> 1200, x |-> 10200, y |-> 70250]

\* C20 witness: a rectangle given top first and lower than 15 points gets
\* a font smaller than 12.
C20_WitnessSmall ==
  /\ last.op = "overlay"
  /\ last.rect[2] > last.rect[4]
  /\ last.drawn.font_size = 800

\* The list an update computes from the file it read.
C21_Rewritten(u) ==
  update_mapping(u.read, <<>>, u.template, u.field_id, u.canonical_id, u.status,
                 "human", 0).file.mappings

\* C21: a request that saves leaves in the store exactly the list it built
\* from the file it had read, whatever other requests wrote in between.
C21_LastWriterWins ==
  [][/\ (last'.op = "analyze" /\ last'.saves)
        => C12_StoreAfter(last'.template) = last'.val
     /\ (last'.op = "update" /\ last'.kind = "ok")
        => C12_StoreAfter(last'.template) = C21_Rewritten(last')]_vars

\* C21 witness: an analysis that had read the store before a manual
\* override was written has saved its list, and the store no longer holds
\* a preserved record although an update found its field.
C21_Witness ==
  /\ last.op = "analyze" /\ last.saves
  /\ \A i \in DOMAIN last.read.mappings :
       last.read.mappings[i].mapping_status \notin PreservedStatuses
  /\ overrides # {}
  /\ \A i \in DOMAIN StoreOf(last.template) :
       StoreOf(last.template)[i].mapping_status \notin PreservedStatuses

\* C22: a field that map_template_fields returns with a preserved status
\* has, in the store the call read, a record of its own id with a preserved
\* status.
C22_PreservedOnlyByOwnId ==
  [][(last'.op = "analyze" /\ last'.kind = "ok"
      /\ last'.strategy \in {"acroform", "static"})
     => \A j \in DOMAIN last'.val :
          last'.val[j].mapping_status \in PreservedStatuses
          => \E i \in DOMAIN StoreOf(last'.template) :
               /\ StoreOf(last'.template)[i].id = last'.val[j].id
               /\ StoreOf(last'.template)[i].mapping_status \in PreservedStatuses]_vars

\* C23: an analysis or an update of one template leaves the records stored
\* for every other template as they were.
C23_StoresDistinct ==
  [][(last'.op \in {"analyze", "update"})
     => \A b \in DOMAIN templates :
          b # last'.template => C12_StoreAfter(b) = StoreOf(b)]_vars

\* The record an update finds in the store of its template.
C24_Found(u) == StoreOf(u.template)[found_index(StoreOf(u.template), u.field_id)]

\* Whether the step appended one entry to the correction log.
C24_Appended == Len(corrections') = Len(corrections) + 1

\* C24: the ai_guess of an appended correction is the id the search ranked
\* first for the field, never one a human update put there; and an update
\* of a record that still carries its automatic mapping appends an entry
\* whenever the supplied id differs from the automatic proposal, the empty
\* proposal included.
C24_GuessIsAutomatic ==
  [][(last'.op = "update" /\ last'.kind = "ok" /\ last'.found)
     => /\ C24_Appended
           => /\ C24_Found(last').mapping_proposal.candidates # <<>>
              /\ corrections'[Len(corrections')].ai_guess
                   = C24_Found(last').mapping_proposal.candidates[1]
        /\ (/\ C24_Found(last').mapping_source \in TierSources
            /\ last'.canonical_id # C24_Found(last').mapping_proposal.canonical_field_id)
           => C24_Appended]_vars

\* The record an update rewrites, as the claim describes it.
C25_Rewritten(rec, u) ==
  /\ rec.name = u.canonical_id
  /\ rec.mapping_status = u.status
  /\ rec.confidence = "High"
  /\ rec.mapping_source = "manual_correction"
  /\ rec.reviewed_by = "human"

\* C25: an update rewrites the first record whose original id is field_id
\* (name, status, confidence High, source manual_correction, reviewer) and
\* leaves every other record of the template as it was; when no record
\* matches, no record changes and no correction is appended.
C25_ExactlyOneRecord ==
  [][(last'.op = "update" /\ last'.kind = "ok")
     => /\ Len(C12_StoreAfter(last'.template)) = Len(StoreOf(last'.template))
        /\ last'.found
           => /\ C25_Rewritten(C12_StoreAfter(last'.template)
                                 [found_index(StoreOf(last'.template), last'.field_id)],
                               last')
              /\ \A i \in DOMAIN StoreOf(last'.template) :
                   i # found_index(StoreOf(last'.template), last'.field_id)
                   => C12_StoreAfter(last'.template)[i] = StoreOf(last'.template)[i]
        /\ ~last'.found
           => /\ C12_StoreAfter(last'.template) = StoreOf(last'.template)
              /\ corrections' = corrections]_vars

\* C25 witness: an update with the status rejected rewrote the second
\* record of a store of two and left the first as the analysis had made it.
C25_Witness ==
  /\ last.op = "update" /\ last.kind = "ok" /\ last.found
  /\ last.status = "rejected"
  /\ Len(StoreOf(last.template)) = 2
  /\ StoreOf(last.template)[2].mapping_status = "rejected"
  /\ StoreOf(last.template)[2].mapping_source = "manual_correction"
  /\ StoreOf(last.template)[1].mapping_source \in TierSources

\* C25 witness: an update that named no field of the store left it alone.
C25_WitnessNoMatch ==
  /\ last.op = "update" /\ last.kind = "ok" /\ ~last.found
  /\ Len(StoreOf(last.template)) = 2

\* C26: an analysis of a document with an interactive form returns no
\* field of the static scan.
C26_StrategiesExclusive ==
  (Analysed /\ IsInteractive(templates[last.template].doc))
  => \A i \in DOMAIN last.val : last.val[i].source # "static_scan"

\* The headers of the last section step that lie above y, and the lowest
\* of them.
C27_Above(y) == {i \in DOMAIN last.headers : last.headers[i].y > y}
C27_Nearest(y) ==
  {i \in C27_Above(y) : \A j \in C27_Above(y) : last.headers[i].y <= last.headers[j].y}

\* The section is the text of a lowest header above y, General without one.
C27_SectionAbove(y) ==
  IF C27_Above(y) = {} THEN last.section = "General"
  ELSE \E i \in C27_Nearest(y) : last.section = last.headers[i].text

\* C27 as stated: the section of a field is the text of the lowest header
\* above the field's lower rectangle edge, and General when no header is
\* above it.
C27_SectionByLowerEdge ==
  (last.op = "section" /\ last.rect # NoRect)
  => C27_SectionAbove(field_y_lower(last.rect))

\* C27 amended: ... above the field's upper rectangle edge ...
C27_SectionByUpperEdge ==
  (last.op = "section" /\ last.rect # NoRect)
  => C27_SectionAbove(IF last.rect[2] >= last.rect[4] THEN last.rect[2]
                      ELSE last.rect[4])

\* C27 witness: with a header inside the band of the rectangle and one
\* above it, the field gets the section of the one above.
C27_Witness ==
  /\ last.op = "section"
  /\ last.rect = <<1000, 7000, 2500, 7200>>
  /\ last.headers = <<Header(7100, "PART A"), Header(7300, "PART B")>>
  /\ last.section = "PART B"

\* C27 witness: a header inside the band alone leaves the section General.
C27_WitnessGeneral ==
  /\ last.op = "section"
  /\ last.rect = <<1000, 7200, 2500, 7000>>
  /\ last.headers = <<Header(7100, "PART A")>>
  /\ last.section = "General"

\* C28: every record an analysis returns has original_name equal to its
\* id, records preserved from an approved or overridden mapping included.
C28_OriginalNameIsId ==
  Analysed => \A i \in DOMAIN last.val : last.val[i].original_name = last.val[i].id

\* The triples of status, confidence and source the tiers assign.
C29_Triples ==
  { <<"auto", "High", "auto_embedding_strong">>,
    <<"pending_review", "Medium", "auto_embedding_weak">>,
    <<"suggest_new", "Low", "Unmapped">> }

\* What the search answers for the label of record m in the last analysis.
C29_Ranked(m) ==
  search_canonical_field_batch(last.ready, <<m.label>>, schema, TRUE).val[1]

\* A record as the automatic path makes it.
C29_Automatic(m) ==
  /\ <<m.mapping_status, m.confidence, m.mapping_source>> \in C29_Triples
  /\ m.mapping_status = "suggest_new" <=> m.mapping_proposal.canonical_field_id = None
  /\ m.mapping_status # "suggest_new" => m.mapping_proposal.canonical_field_id = m.name
  /\ Len(m.mapping_proposal.candidates) = Len(m.mapping_proposal.scores)
  /\ Len(m.mapping_proposal.candidates) = Len(C29_Ranked(m))
  /\ \A k \in DOMAIN C29_Ranked(m) :
       /\ m.mapping_proposal.candidates[k] = C29_Ranked(m)[k].metadata.field_id
       /\ m.mapping_proposal.scores[k] = C29_Ranked(m)[k].score

\* C29: every record the tiers of map_template_fields made has one of the
\* three triples of status, confidence and source; its proposal's canonical
\* id is null exactly for suggest_new and equals name otherwise; and the
\* proposal lists the candidates and scores of the search in its order.
C29_AutomaticRecordShape ==
  Mapped => \A i \in DOMAIN last.val :
    last.val[i].mapping_status \notin PreservedStatuses => C29_Automatic(last.val[i])

\* C29 witness: an analysis mapped a field for review to the first of
\* the two candidates the search ranked for it.
C29_Witness ==
  /\ Mapped
  /\ \E i \in DOMAIN last.val :
       /\ last.val[i].mapping_status = "pending_review"
       /\ Len(last.val[i].mapping_proposal.candidates) = 2
       /\ last.val[i].name = last.val[i].mapping_proposal.candidates[1]
       /\ last.val[i].name # last.val[i].id

\* C29 witness: an analysis left a field unmapped although the search had
\* ranked candidates for it.
C29_WitnessUnmapped ==
  /\ Mapped
  /\ \E i \in DOMAIN last.val :
       /\ last.val[i].mapping_status = "suggest_new"
       /\ last.val[i].mapping_proposal.scores # <<>>
       /\ last.val[i].mapping_proposal.canonical_field_id = None

\* The store of t holds what an analysis without similarity search left:
\* every record suggest_new, with no candidate.
C30_Degraded(t) ==
  /\ StoreOf(t) # <<>>
  /\ \A i \in DOMAIN StoreOf(t) :
       /\ StoreOf(t)[i].mapping_status = "suggest_new"
       /\ StoreOf(t)[i].mapping_proposal.candidates = <<>>

\* C30: while the template is not newer than its mapping file, an analysis
\* of a template whose store is degraded returns the stored suggest_new
\* records without a search call and leaves the store alone, also when the
\* similarity search is ready by then.
C30_DegradedIsSticky ==
  [][(last'.op = "analyze" /\ C13_Fresh(last'.template) /\ C30_Degraded(last'.template))
     => /\ last'.kind = "ok"
        /\ last'.val = StoreOf(last'.template)
        /\ ~last'.searched
        /\ mapfiles' = mapfiles]_vars

\* C30 witness: with the similarity search ready, an analysis returned
\* from the cache the unmapped records of an analysis made without it.
C30_Witness ==
  /\ Analysed /\ last.strategy = "cache" /\ last.ready /\ ~last.searched
  /\ C30_Degraded(last.template)
  /\ last.val = StoreOf(last.template)
  /\ Len(last.val) = 2


====
